---- MODULE Spec2Model ----
(***************************************************************************)
(* Verification model of the AERONET AOD availability tool chain           *)
(* (mrco-at/project_aeronet_p1).                                           *)
(*                                                                         *)
(* The repository is a set of independent single-threaded scripts.  Each   *)
(* component is modelled by its own specification over the shared          *)
(* variables; the variables of the other components stay at their idle     *)
(* value.                                                                  *)
(*                                                                         *)
(*   SpecDownloader   download_aeronet_data.py  (batch driver)             *)
(*   SpecSweep        data_processor.py         (process_data sweep)       *)
(*   SpecAccessors    data_processor.py  (process_data, get_empty_files)   *)
(*   SpecParser       read_aod_data, three copies                          *)
(*   SpecAvailability calculate_availability / calculate_representative_   *)
(*                    days / calculate_daily_availability                  *)
(*   SpecGaps         etl_aeronet_data.py       (identify_gaps)            *)
(*   SpecMarker       map_utils.py              (get_marker_properties)    *)
(*   SpecKmz          map_utils.py              (extract_kmz_data)         *)
(*   SpecMap          map_utils.py              (create_south_america_map) *)
(*   SpecAllStations  map_utils.py  (calculate_all_stations_availability)  *)
(*   SpecWindow       the day count of the analysis window (three copies)   *)
(*   SpecClean        clean_dataframes (two copies)                         *)
(*   SpecFilter       filter_brazilian_stations                             *)
(*   SpecLoad         load_station_data                                     *)
(*   SpecAlign        align_dataframes_by_date                              *)
(*   SpecStaticMap    the availability of create_static_south_america_map   *)
(*   SpecMedian       the median-split representativeness analysis          *)
(***************************************************************************)
EXTENDS Integers, Sequences, FiniteSets, TLC

VARIABLES
    \* ---- download_aeronet_data.py ----
    dl_pc,          \* position of the batch driver
    dl_i,           \* index of the station of the for loop (1-based)
    attempt,        \* loop variable of `for attempt in range(retries)`
    disk,           \* download folder: station -> file
    data_format,    \* the data-format label the run was started with
    net_calls,      \* station -> number of wget.download calls issued
    error_log,      \* lines written to error_log.txt: <<station, attempt + 1>>
    failed,         \* stations for which "Failed to download ..." was printed
    tries,          \* station -> attempts made so far
    ok_at,          \* station -> attempt number of its successful attempt, 0 if none
    order,          \* stations in the order "Processing station" was printed
    last,           \* observation of the most recent attempt
    argv_site,      \* sys.argv[1] of the run, 0 for a run without arguments
    site_name,      \* the variable site_name of the main block
    \* ---- data_processor.py ----
    sw_pc,          \* position of process_data
    sw_lvl,         \* index of the level of the outer for loop
    tree,           \* data root: the directory entries [level, name, content]
    dirs,           \* the level directories that exist
    listing,        \* what is left of os.listdir(level_dir), in its order
    availability_data,  \* the dictionary process_data builds
    empty_files,    \* self.empty_files
    errors,         \* self.errors
    handled,        \* paths the sweep has gone through, in order
    stored,         \* path -> the result stored for that file
    \* ---- read_aod_data (map_utils.py, process_aeronet_availability.py,
    \*      analyze_availability.py) ----
    pa_pc,          \* "ready" before the call, then the copy that was called
    raw_file,       \* the raw AOD file handed to read_aod_data
    parsed,         \* what read_aod_data returned
    \* ---- calculate_availability, calculate_representative_days ----
    av_pc,          \* "ready" before the call, then the function that was called
    measurements,   \* the frame df passed in: date -> number of rows of that date
    min_measurements_per_day,   \* the floor the caller configured
    stats,          \* the statistics record returned
    \* ---- etl_aeronet_data.py: identify_gaps ----
    gp_pc,          \* "ready" before the call, then "returned" or "raised"
    gp_column,      \* the distinct values of df[date_column]
    gp_start,       \* the start_date argument
    gp_end,         \* the end_date argument
    gaps,           \* the list identify_gaps returned
    \* ---- map_utils.py: get_marker_properties ----
    mk_pc,          \* "ready" before the call, then "returned"
    mk_availability, \* the availability argument, in percent
    mk_props,       \* the (colour, group) pair returned
    \* ---- map_utils.py: extract_kmz_data ----
    km_pc,          \* "ready" before the call, then "returned" or "raised"
    kmz_file,       \* the archive the kmz_file argument names
    km_stations,    \* the list extract_kmz_data returned
    \* ---- map_utils.py: create_south_america_map ----
    mp_pc,          \* position of create_south_america_map
    kmz_present,    \* whether data/AERONET_Stations.kmz exists
    kmz_remote,     \* the archive at data/AERONET_Stations.kmz, downloaded if absent
    station_availability, \* catalog name -> availability of the data load_station_data finds
    stations_df,    \* the frame built from the catalog records
    mp_i,           \* index of the row of the for loop over stations_df
    markers,        \* the CircleMarkers added to the map, in order
    mp_result,      \* what create_south_america_map returned
    \* ---- map_utils.py: calculate_all_stations_availability ----
    as_pc,          \* position of calculate_all_stations_availability
    as_lvl,         \* index of the level of the for loop
    geos_kmz,       \* the archive at geos/aeronet_sites_v3.kmz
    level_files,    \* the files of the AOD_data_lvl* directories
    level_dirs,     \* the AOD_data_lvl* directories that exist
    stations_dict,  \* catalog name -> catalog record
    files,          \* what is left of the list of matching files of the level
    results,        \* the dictionary the function builds
    as_outcome,     \* how the call ended: the value returned, or raised
    \* ---- data_processor.py: get_empty_files ----
    ef_pc,          \* "ready" until get_empty_files has returned
    data_dir,       \* self.data_dir: "" is the working directory itself
    cwd_empty,      \* zero-byte .txt files of ./AOD_data_lvl* when data_dir is elsewhere
    returned_empty, \* the list get_empty_files returned
    \* ---- the day count of the analysis window ----
    wd_pc,          \* "ready" before the call, then the function that computed it
    wd_start,       \* the first date <<year, month, day>> of the window
    wd_end,         \* the last date <<year, month, day>> of the window
    wd_days,        \* the number of days computed
    \* ---- clean_dataframes (etl_aeronet_data.py, etl_cpam_...py) ----
    cl_pc,          \* "ready" before the call, then the copy that was called
    raw_column,     \* a numeric column of a loaded frame, first row included
    cleaned,        \* the column in the cleaned frame
    \* ---- filter_brazilian_stations (map_utils.py) ----
    fb_pc,          \* "ready", "filtered" after one call, "refiltered" after a call on the result
    fb_stations,    \* the argument of the last call
    fb_original,    \* a copy of the list as it was before the first call
    brazilian_stations, \* the list the last call returned
    \* ---- load_station_data (map_utils.py) ----
    ld_pc,          \* "ready" before the call, "done" after it
    ld_level,       \* the level argument
    ld_files,       \* for each level, the state of the station's file in that level's directory
    ld_outcome,     \* how the call ended
    \* ---- align_dataframes_by_date (etl_aeronet_data.py) ----
    al_pc,          \* "ready" before the call, "done" after it
    dfs,            \* the loaded frames, by file path
    aligned_dfs,    \* the returned frames, by file path
    \* ---- create_static_south_america_map (map_utils.py) ----
    sm_pc,          \* "ready" before a station of the loop is taken, "done" after it
    sm_df,          \* what load_station_data returned for the station
    sm_availability, \* the station's availability, as <<numerator, denominator>>
    \* ---- the median-split analysis (etl_aeronet_data_avaibilitty.py) ----
    md_pc,          \* "ready" before a station is analysed, "done" after it
    md_daily_counts, \* the valid measurements of each day of the station's file
    md_result       \* the second quartile and the representative days of the station

dlVars == <<dl_pc, dl_i, attempt, disk, data_format, net_calls, error_log,
            failed, tries, ok_at, order, last, argv_site, site_name>>

swVars == <<sw_pc, sw_lvl, tree, dirs, listing, availability_data, empty_files,
            errors, handled, stored>>

paVars == <<pa_pc, raw_file, parsed>>

avVars == <<av_pc, measurements, min_measurements_per_day, stats>>

gpVars == <<gp_pc, gp_column, gp_start, gp_end, gaps>>

mkVars == <<mk_pc, mk_availability, mk_props>>

kmVars == <<km_pc, kmz_file, km_stations>>

mpVars == <<mp_pc, kmz_present, kmz_remote, station_availability, stations_df, mp_i, markers, mp_result>>

asVars == <<as_pc, as_lvl, geos_kmz, level_files, level_dirs, stations_dict, files, results, as_outcome>>

efVars == <<ef_pc, data_dir, cwd_empty, returned_empty>>

wdVars == <<wd_pc, wd_start, wd_end, wd_days>>

clVars == <<cl_pc, raw_column, cleaned>>

fbVars == <<fb_pc, fb_stations, fb_original, brazilian_stations>>

ldVars == <<ld_pc, ld_level, ld_files, ld_outcome>>

alVars == <<al_pc, dfs, aligned_dfs>>

smVars == <<sm_pc, sm_df, sm_availability>>

mdVars == <<md_pc, md_daily_counts, md_result>>

vars == <<dlVars, swVars, paVars, avVars, gpVars, mkVars, kmVars, mpVars, asVars, efVars, wdVars, clVars, fbVars, ldVars, alVars, smVars, mdVars>>

notDl == <<swVars, paVars, avVars, gpVars, mkVars, kmVars, mpVars, asVars, efVars, wdVars, clVars, fbVars, ldVars, alVars, smVars, mdVars>>

notSw == <<dlVars, paVars, avVars, gpVars, mkVars, kmVars, mpVars, asVars, efVars, wdVars, clVars, fbVars, ldVars, alVars, smVars, mdVars>>

notPa == <<dlVars, swVars, avVars, gpVars, mkVars, kmVars, mpVars, asVars, efVars, wdVars, clVars, fbVars, ldVars, alVars, smVars, mdVars>>

notAv == <<dlVars, swVars, paVars, gpVars, mkVars, kmVars, mpVars, asVars, efVars, wdVars, clVars, fbVars, ldVars, alVars, smVars, mdVars>>

notGp == <<dlVars, swVars, paVars, avVars, mkVars, kmVars, mpVars, asVars, efVars, wdVars, clVars, fbVars, ldVars, alVars, smVars, mdVars>>

notMk == <<dlVars, swVars, paVars, avVars, gpVars, kmVars, mpVars, asVars, efVars, wdVars, clVars, fbVars, ldVars, alVars, smVars, mdVars>>

notKm == <<dlVars, swVars, paVars, avVars, gpVars, mkVars, mpVars, asVars, efVars, wdVars, clVars, fbVars, ldVars, alVars, smVars, mdVars>>

notMp == <<dlVars, swVars, paVars, avVars, gpVars, mkVars, kmVars, asVars, efVars, wdVars, clVars, fbVars, ldVars, alVars, smVars, mdVars>>

notAs == <<dlVars, swVars, paVars, avVars, gpVars, mkVars, kmVars, mpVars, efVars, wdVars, clVars, fbVars, ldVars, alVars, smVars, mdVars>>

notEf == <<dlVars, swVars, paVars, avVars, gpVars, mkVars, kmVars, mpVars, asVars, wdVars, clVars, fbVars, ldVars, alVars, smVars, mdVars>>

notWd == <<dlVars, swVars, paVars, avVars, gpVars, mkVars, kmVars, mpVars, asVars, efVars, clVars, fbVars, ldVars, alVars, smVars, mdVars>>

notCl == <<dlVars, swVars, paVars, avVars, gpVars, mkVars, kmVars, mpVars, asVars, efVars, wdVars, fbVars, ldVars, alVars, smVars, mdVars>>

notFb == <<dlVars, swVars, paVars, avVars, gpVars, mkVars, kmVars, mpVars, asVars, efVars, wdVars, clVars, ldVars, alVars, smVars, mdVars>>

notLd == <<dlVars, swVars, paVars, avVars, gpVars, mkVars, kmVars, mpVars, asVars, efVars, wdVars, clVars, fbVars, alVars, smVars, mdVars>>

notAl == <<dlVars, swVars, paVars, avVars, gpVars, mkVars, kmVars, mpVars, asVars, efVars, wdVars, clVars, fbVars, ldVars, smVars, mdVars>>

notSm == <<dlVars, swVars, paVars, avVars, gpVars, mkVars, kmVars, mpVars, asVars, efVars, wdVars, clVars, fbVars, ldVars, alVars, mdVars>>

notMd == <<dlVars, swVars, paVars, avVars, gpVars, mkVars, kmVars, mpVars, asVars, efVars, wdVars, clVars, fbVars, ldVars, alVars, smVars>>

(***************************************************************************)
(*                     download_aeronet_data.py                            *)
(***************************************************************************)

\* Number of stations of the modelled station list.
NumStations == 2

\* The hardcoded list; only its order and the distinctness of its entries
\* matter to the driver, so the stations are numbered.
stations_in_brazil == [k \in 1..NumStations |-> k]

Stations == {stations_in_brazil[k] : k \in 1..NumStations}

\* line 117
retries == 3

\* A file of the download folder, abstracted to what pd.read_csv(file_path)
\* with default arguments sees: the number of metadata lines that precede
\* the column header line, and whether that header line names the column
\* Date(dd:mm:yyyy).
Preambles == {0, 4, 5, 6}

Absent == [exists |-> FALSE, preamble |-> 0, hasDate |-> FALSE]

Files == [exists : {TRUE}, preamble : Preambles, hasDate : BOOLEAN]

\* A raw AOD file as the archive serves it: 4 to 6 metadata lines, then the
\* header line with the date column.
WellFormed(f) == f.exists /\ f.preamble \in {4, 5, 6} /\ f.hasDate

\* What the remote service can answer to one wget.download call: an error
\* (nothing is saved) or some body that is saved as the file.
NetResponses == {Absent} \cup Files

DataFormats == {"all points", "Daily Averages", "weekly"}

\* str.lower() on the labels of DataFormats.
Lower(fmt) == IF fmt = "Daily Averages" THEN "daily averages" ELSE fmt

\* lines 35-40: the labels that select an averaging code.
ValidFormat(fmt) == Lower(fmt) \in {"all points", "daily averages"}

NeedsDownload_always(d, site) == TRUE

\* line 49: os.path.isfile(output_path) == False
NeedsDownload(d, site) == ~d[site].exists

\* download_aeronet_aod(site, ...) run on folder d when the network would
\* answer resp.  Result: whether ValueError left the function, the folder
\* afterwards, whether wget.download was called and what was printed.
download_aeronet_aod(site, fmt, d, resp) ==
    IF ~ValidFormat(fmt)
    THEN [raised |-> TRUE, disk |-> d, called |-> FALSE, report |-> "invalid format"]
    ELSE IF NeedsDownload(d, site)
    THEN IF resp.exists
         THEN [raised |-> FALSE, disk |-> [d EXCEPT ![site] = resp],
               called |-> TRUE, report |-> "downloaded"]
         ELSE [raised |-> FALSE, disk |-> d,
               called |-> TRUE, report |-> "download error"]
    ELSE [raised |-> FALSE, disk |-> d, called |-> FALSE, report |-> "already exists"]

\* The column names pd.read_csv(file_path) assigns: the fields of the first
\* line of the file.  They include Date(dd:mm:yyyy) only if the first line is
\* the column header line.
DateInColumns(f) == f.preamble = 0 /\ f.hasDate

\* validate_downloaded_data(file_path): TRUE when it returns, FALSE when it
\* raises (FileNotFoundError for a missing file, ValueError or a parser
\* error otherwise).
validate_downloaded_data(f) == f.exists /\ DateInColumns(f)

IdleDownloader ==
    /\ dl_pc = "idle"
    /\ dl_i = 0
    /\ attempt = 0
    /\ disk = <<>>
    /\ data_format = "all points"
    /\ net_calls = <<>>
    /\ error_log = <<>>
    /\ failed = {}
    /\ argv_site = 0
    /\ site_name = 0
    /\ tries = <<>>
    /\ ok_at = <<>>
    /\ order = <<>>
    /\ last = <<>>

IdleSweep ==
    /\ sw_pc = "idle"
    /\ sw_lvl = 0
    /\ tree = {}
    /\ dirs = {}
    /\ listing = <<>>
    /\ availability_data = <<>>
    /\ empty_files = <<>>
    /\ errors = <<>>
    /\ handled = <<>>
    /\ stored = <<>>

IdleParser ==
    /\ pa_pc = "idle"
    /\ raw_file = <<>>
    /\ parsed = <<>>

IdleAvailability ==
    /\ av_pc = "idle"
    /\ measurements = <<>>
    /\ min_measurements_per_day = 0
    /\ stats = <<>>

IdleGaps ==
    /\ gp_pc = "idle"
    /\ gp_column = {}
    /\ gp_start = 0
    /\ gp_end = 0
    /\ gaps = <<>>

IdleMarker ==
    /\ mk_pc = "idle"
    /\ mk_availability = 0
    /\ mk_props = <<>>

IdleKmz ==
    /\ km_pc = "idle"
    /\ kmz_file = <<>>
    /\ km_stations = <<>>

IdleMap ==
    /\ mp_pc = "idle"
    /\ kmz_present = FALSE
    /\ kmz_remote = <<>>
    /\ station_availability = <<>>
    /\ stations_df = <<>>
    /\ mp_i = 0
    /\ markers = <<>>
    /\ mp_result = ""

IdleAllStations ==
    /\ as_pc = "idle"
    /\ as_lvl = 0
    /\ geos_kmz = <<>>
    /\ level_files = {}
    /\ level_dirs = {}
    /\ stations_dict = <<>>
    /\ files = <<>>
    /\ results = <<>>
    /\ as_outcome = <<>>

IdleAccessors ==
    /\ ef_pc = "idle"
    /\ data_dir = ""
    /\ cwd_empty = {}
    /\ returned_empty = <<>>

IdleWindow ==
    /\ wd_pc = "idle"
    /\ wd_start = <<>>
    /\ wd_end = <<>>
    /\ wd_days = 0

IdleClean ==
    /\ cl_pc = "idle"
    /\ raw_column = <<>>
    /\ cleaned = <<>>

IdleFilter ==
    /\ fb_pc = "idle"
    /\ fb_stations = <<>>
    /\ fb_original = <<>>
    /\ brazilian_stations = <<>>

IdleLoad ==
    /\ ld_pc = "idle"
    /\ ld_level = [kind |-> "none", n |-> 0]
    /\ ld_files = <<>>
    /\ ld_outcome = [raised |-> FALSE, none |-> TRUE, level |-> 0]

IdleAlign ==
    /\ al_pc = "idle"
    /\ dfs = <<>>
    /\ aligned_dfs = <<>>

IdleStaticMap ==
    /\ sm_pc = "idle"
    /\ sm_df = [none |-> TRUE, dates |-> {}]
    /\ sm_availability = <<0, 1>>

IdleMedian ==
    /\ md_pc = "idle"
    /\ md_daily_counts = <<>>
    /\ md_result = [second_quartil |-> <<0, 1>>, representative_days |-> 0]

\* Every component but the one that runs is idle.
OthersIdle(me) ==
    /\ IF me = "downloader" THEN TRUE ELSE IdleDownloader
    /\ IF me \in {"sweep", "accessors"} THEN TRUE ELSE IdleSweep
    /\ IF me = "parser" THEN TRUE ELSE IdleParser
    /\ IF me = "availability" THEN TRUE ELSE IdleAvailability
    /\ IF me = "gaps" THEN TRUE ELSE IdleGaps
    /\ IF me = "marker" THEN TRUE ELSE IdleMarker
    /\ IF me = "kmz" THEN TRUE ELSE IdleKmz
    /\ IF me = "map" THEN TRUE ELSE IdleMap
    /\ IF me = "all_stations" THEN TRUE ELSE IdleAllStations
    /\ IF me = "accessors" THEN TRUE ELSE IdleAccessors
    /\ IF me = "window" THEN TRUE ELSE IdleWindow
    /\ IF me = "clean" THEN TRUE ELSE IdleClean
    /\ IF me = "filter" THEN TRUE ELSE IdleFilter
    /\ IF me = "load" THEN TRUE ELSE IdleLoad
    /\ IF me = "align" THEN TRUE ELSE IdleAlign
    /\ IF me = "static_map" THEN TRUE ELSE IdleStaticMap
    /\ IF me = "median" THEN TRUE ELSE IdleMedian

NoObservation == [site |-> 0, existed |-> FALSE, before |-> Absent, after |-> Absent,
                  called |-> FALSE, report |-> "none", config_error |-> FALSE,
                  validated |-> FALSE, success |-> FALSE]

\* The station name a run can be started with: one of the list, one not.
SiteArguments == {NumStations, NumStations + 1}

\* line 103: the site_name of a run without arguments (it is in the list).
HardcodedSite == NumStations

\* lines 89-109: a run is started with seven arguments, of which the site
\* name and the format label are modelled, or with none, and then takes
\* the hardcoded values.
InitDownloader ==
    /\ dl_pc = "station"
    /\ dl_i = 1
    /\ attempt = 0
    /\ disk \in [Stations -> {Absent} \cup Files]
    /\ \/ /\ argv_site \in SiteArguments
          /\ site_name = argv_site
          /\ data_format \in DataFormats
       \/ /\ argv_site = 0
          /\ site_name = HardcodedSite
          /\ data_format = "all points"
    /\ net_calls = [s \in Stations |-> 0]
    /\ error_log = <<>>
    /\ failed = {}
    /\ tries = [s \in Stations |-> 0]
    /\ ok_at = [s \in Stations |-> 0]
    /\ order = <<>>
    /\ last = NoObservation
    /\ OthersIdle("downloader")

for_target_kept(k, site) == site

\* line 115: `for site_name in stations_in_brazil` binds site_name, whatever
\* it held, to the k-th station of the list.
for_target(k, site) == stations_in_brazil[k]

\* line 115-117: the for loop takes the next station.
StartStation ==
    /\ dl_pc = "station"
    /\ site_name' = for_target(dl_i, site_name)
    /\ order' = Append(order, site_name')
    /\ attempt' = 0
    /\ dl_pc' = "attempt"
    /\ UNCHANGED <<dl_i, disk, data_format, net_calls, error_log, failed, tries,
                   ok_at, last, argv_site>>
    /\ UNCHANGED notDl

retry_again_no_break(a, good) == a + 1 < retries

\* lines 118, 127: the retry loop goes round again when the attempt failed
\* (no break) and range(retries) is not exhausted.
retry_again(a, good) == ~good /\ a + 1 < retries

\* lines 118-133: one iteration of the retry loop, the except clause included.
Attempt ==
    /\ dl_pc = "attempt"
    /\ \E resp \in NetResponses :
         LET site == site_name
             call == download_aeronet_aod(site, data_format, disk, resp)
             file == call.disk[site]
             good == ~call.raised /\ validate_downloaded_data(file)
         IN  /\ disk' = call.disk
             /\ net_calls' = [net_calls EXCEPT
                                ![site] = @ + (IF call.called THEN 1 ELSE 0)]
             /\ tries' = [tries EXCEPT ![site] = @ + 1]
             /\ last' = [site |-> site, existed |-> disk[site].exists,
                         before |-> disk[site], after |-> file,
                         called |-> call.called, report |-> call.report,
                         config_error |-> call.raised,
                         validated |-> ~call.raised, success |-> good]
             /\ ok_at' = IF good /\ ok_at[site] = 0
                         THEN [ok_at EXCEPT ![site] = attempt + 1] ELSE ok_at
             /\ error_log' = IF good THEN error_log
                             ELSE Append(error_log, <<site, attempt + 1>>)
             /\ failed' = IF ~good /\ attempt = retries - 1
                          THEN failed \cup {site} ELSE failed
             /\ IF retry_again(attempt, good)
                THEN attempt' = attempt + 1 /\ dl_pc' = "attempt"
                ELSE attempt' = attempt /\ dl_pc' = "sleep"
    /\ UNCHANGED <<dl_i, data_format, order, argv_site, site_name>>
    /\ UNCHANGED notDl

\* line 135 and the loop header: sleep, then the next station or the end.
Sleep ==
    /\ dl_pc = "sleep"
    /\ IF dl_i < NumStations
       THEN dl_i' = dl_i + 1 /\ dl_pc' = "station"
       ELSE dl_i' = dl_i /\ dl_pc' = "done"
    /\ UNCHANGED <<attempt, disk, data_format, net_calls, error_log, failed,
                   tries, ok_at, order, last, argv_site, site_name>>
    /\ UNCHANGED notDl

NextDownloader == StartStation \/ Attempt \/ Sleep

SpecDownloader == InitDownloader /\ [][NextDownloader]_vars

(***************************************************************************)
(*                  data_processor.py: AeronetDataProcessor                *)
(***************************************************************************)

\* Calendar dates are day numbers; 0 stands for a date field that
\* pd.to_datetime(..., errors='coerce') turns into NaT.
NaT == 0

\* The configured window [start_date, end_date] of the processor, and the
\* calendar the files draw their dates from (one day)
\* before and one day after the window included.
WindowFirst == 2

WindowLength == 2

start_date == WindowFirst

end_date == WindowFirst + WindowLength - 1

Days == (start_date - 1)..(end_date + 1)

\* Largest number of files under the data root.
MaxFiles == 2

\* line 108: for level in ['10', '15', '20']
levels == <<"10", "15", "20">>

Levels == {levels[k] : k \in 1..Len(levels)}

\* File names, already split at '_'.
file_names == <<
    <<"Cuiaba", "1995-01-01", "to", "2024-12-31", "AOD", "all", "points.txt">>,
    <<"Alta", "Floresta", "1995-01-01", "to", "2024-12-31", "AOD", "all", "points.txt">>,
    <<"Alta", "Floresta", "IF", "1995-01-01", "to", "2024-12-31", "AOD", "all", "points.txt">>,
    <<"README.md">> >>

FileNames == {file_names[k] : k \in 1..Len(file_names)}

\* line 116: file_name.endswith('.txt')
EndsWithTxt(name) == name[Len(name)] \in {"points.txt"}

\* line 120: file_name.split('_')[0]
station_name(name) == <<name[1]>>

\* The content of a file, as far as process_data looks at it: whether it has
\* zero bytes, whether its first line starts with AERONET, how many lines
\* precede the column header line, whether pd.read_csv fails on it when the
\* header is taken from one of those preceding lines (their field count
\* differs from the data rows'), and the date field of every data row.
RowSeqs(n) == UNION {[1..k -> {NaT} \cup Days] : k \in 0..n}

Contents ==
    [empty : BOOLEAN, aeronet : BOOLEAN, header : 4..7, ragged : BOOLEAN,
     dates : RowSeqs(2)]

ZeroBytes == [empty |-> TRUE, aeronet |-> FALSE, header |-> 4, ragged |-> FALSE,
              dates |-> <<>>]

\* The contents the multi-file sweeps draw from: one file for every path
\* through the per-file code.
SweepContents == {
    ZeroBytes,
    [empty |-> FALSE, aeronet |-> FALSE, header |-> 6, ragged |-> TRUE,
     dates |-> <<start_date>>],
    [empty |-> FALSE, aeronet |-> TRUE, header |-> 4, ragged |-> TRUE,
     dates |-> <<start_date, start_date>>],
    [empty |-> FALSE, aeronet |-> TRUE, header |-> 6, ragged |-> TRUE,
     dates |-> <<start_date, end_date>>],
    [empty |-> FALSE, aeronet |-> TRUE, header |-> 5, ragged |-> FALSE,
     dates |-> <<end_date + 1>>],
    [empty |-> FALSE, aeronet |-> TRUE, header |-> 7, ragged |-> TRUE,
     dates |-> <<start_date>>],
    [empty |-> FALSE, aeronet |-> TRUE, header |-> 7, ragged |-> FALSE,
     dates |-> <<start_date>>],
    [empty |-> FALSE, aeronet |-> TRUE, header |-> 4, ragged |-> TRUE,
     dates |-> <<NaT>>],
    [empty |-> FALSE, aeronet |-> TRUE, header |-> 5, ragged |-> TRUE,
     dates |-> <<start_date - 1, end_date, NaT, end_date, end_date + 1>>] }

PathOf(e) == <<e.level, e.name>>

\* The paths a data root can hold, numbered.
NumPaths == Len(levels) * Len(file_names)

PathAt(i) == <<levels[((i - 1) \div Len(file_names)) + 1],
               file_names[((i - 1) % Len(file_names)) + 1]>>

\* tree is a data root of n files: at n different paths, the .txt files with
\* contents of C.  (What a file of another extension holds is never read.)
IsTree(C, n) ==
    \E at \in {f \in [1..n -> 1..NumPaths] : \A i, j \in 1..n : i < j => f[i] < f[j]} :
    \E cs \in [1..n -> C] :
        /\ \A k \in 1..n : ~EndsWithTxt(PathAt(at[k])[2]) => cs[k] = ZeroBytes
        /\ tree = {[level |-> PathAt(at[k])[1], name |-> PathAt(at[k])[2],
                    content |-> cs[k]] : k \in 1..n}

\* verify_file_integrity(file_path) for a file the directory lists:
\* "empty" (recorded in self.empty_files), "bad" or "ok".
verify_file_integrity(c) ==
    IF c.empty THEN "empty"
    ELSE IF ~c.aeronet THEN "bad"
    ELSE "ok"

NoFrame == [none |-> TRUE, hasDate |-> FALSE, len |-> 0, dates |-> <<>>]

\* pd.read_csv(file_path, skiprows = s): the frame, or NoFrame when it
\* raises.  The file has c.header + 1 + Len(c.dates) lines.
read_csv(c, s) ==
    IF s = c.header
    THEN [none |-> FALSE, hasDate |-> TRUE, len |-> Len(c.dates), dates |-> c.dates]
    ELSE IF s < c.header
    THEN IF c.ragged THEN NoFrame
         ELSE [none |-> FALSE, hasDate |-> FALSE,
               len |-> (c.header - s) + Len(c.dates), dates |-> <<>>]
    ELSE IF s >= c.header + 1 + Len(c.dates) THEN NoFrame
    ELSE [none |-> FALSE, hasDate |-> FALSE,
          len |-> c.header + Len(c.dates) - s, dates |-> <<>>]

\* lines 148-153: to_datetime(errors='coerce') and dropna.
DropNaT(ds) == LET Valid(d) == d # NaT IN SelectSeq(ds, Valid)

\* line 132
skiprows_options == <<4, 5, 6>>

\* lines 135-163: the loop over skiprows_options from its k-th option on,
\* df being the value the variable df holds; the result is df after the loop.
RECURSIVE skiprows_loop(_, _, _)
skiprows_loop(c, k, df) ==
    IF k > Len(skiprows_options) THEN df
    ELSE LET r == read_csv(c, skiprows_options[k])
         IN  IF r.none THEN skiprows_loop(c, k + 1, df)
             ELSE IF ~r.hasDate THEN skiprows_loop(c, k + 1, r)
             ELSE LET ds == DropNaT(r.dates)
                      r2 == [r EXCEPT !.dates = ds, !.len = Len(ds)]
                  IN  IF Len(ds) = 0 THEN skiprows_loop(c, k + 1, r2)
                      ELSE r2

InWindow_all(d) == TRUE

\* lines 169-170
InWindow(d) == d >= start_date /\ d <= end_date

DistinctDates(ds) == {ds[k] : k \in 1..Len(ds)}

\* lines 122-196 for one file: what the try block does with it.
\*   "empty", "bad"  the integrity check fails (continue)
\*   "error"         an exception reaches the except clause
\*   "norange"       no row in the window (continue)
\*   "store"         a result is stored
process_file(c) ==
    LET v == verify_file_integrity(c)
        df == skiprows_loop(c, 1, NoFrame)
        clipped == SelectSeq(df.dates, InWindow)
        total_days == (end_date - start_date) + 1
        days_with_data == Cardinality(DistinctDates(clipped))
    IN  IF v # "ok" THEN [kind |-> v, msg |-> "", result |-> <<>>]
        ELSE IF df.none \/ df.len = 0
        THEN [kind |-> "error", msg |-> "Could not read file", result |-> <<>>]
        ELSE IF ~df.hasDate
        THEN [kind |-> "error", msg |-> "KeyError", result |-> <<>>]
        ELSE IF Len(clipped) = 0
        THEN [kind |-> "norange", msg |-> "", result |-> <<>>]
        ELSE [kind |-> "store", msg |-> "",
              result |-> [availability |-> <<days_with_data * 100, total_days>>,
                          days_with_data |-> days_with_data,
                          total_days |-> total_days]]

on_exception_swallow(errs, path, msg) == errs

\* lines 193-196: the except clause of the per-file try block.
on_exception(errs, path, msg) == Append(errs, <<path, msg>>)

\* All orders in which os.listdir can enumerate the entries S.
Listings(S) ==
    {f \in [1..Cardinality(S) -> S] : \A i, j \in 1..Cardinality(S) : f[i] = f[j] => i = j}

SweepStart(C) ==
    /\ sw_pc = "level"
    /\ sw_lvl = 1
    /\ \E n \in 0..MaxFiles : IsTree(C, n)
    /\ dirs \in {D \in SUBSET Levels : \A e \in tree : e.level \in D}
    /\ listing = <<>>
    /\ availability_data = <<>>
    /\ empty_files = <<>>
    /\ errors = <<>>
    /\ handled = <<>>
    /\ stored = <<>>

InitSweepWith(C) == SweepStart(C) /\ OthersIdle("sweep")

InitSweep == InitSweepWith(SweepContents)

NextLevel ==
    IF sw_lvl < Len(levels)
    THEN sw_lvl' = sw_lvl + 1 /\ sw_pc' = "level"
    ELSE sw_lvl' = sw_lvl /\ sw_pc' = "done"

\* lines 109-112: the level directory does not exist.
SkipLevel ==
    /\ sw_pc = "level"
    /\ levels[sw_lvl] \notin dirs
    /\ NextLevel
    /\ UNCHANGED <<tree, dirs, listing, availability_data, empty_files, errors,
                   handled, stored>>
    /\ UNCHANGED notSw

\* line 115: os.listdir(level_dir), in whatever order the file system gives.
ListLevel ==
    /\ sw_pc = "level"
    /\ levels[sw_lvl] \in dirs
    /\ listing' \in Listings({e \in tree : e.level = levels[sw_lvl]})
    /\ sw_pc' = "file"
    /\ UNCHANGED <<sw_lvl, tree, dirs, availability_data, empty_files, errors,
                   handled, stored>>
    /\ UNCHANGED notSw

\* lines 116-196: one iteration of the loop over the directory listing.
ProcessFile ==
    /\ sw_pc = "file"
    /\ listing # <<>>
    /\ LET e == Head(listing)
           path == PathOf(e)
           key == <<station_name(e.name), levels[sw_lvl]>>
           out == process_file(e.content)
       IN  /\ listing' = Tail(listing)
           /\ handled' = Append(handled, path)
           /\ IF ~EndsWithTxt(e.name)
              THEN UNCHANGED <<availability_data, empty_files, errors, stored>>
              ELSE /\ empty_files' = IF out.kind = "empty"
                                     THEN Append(empty_files, path) ELSE empty_files
                   /\ errors' = IF out.kind = "error"
                                THEN on_exception(errors, path, out.msg) ELSE errors
                   /\ availability_data' =
                        IF out.kind = "store"
                        THEN (key :> out.result) @@ availability_data
                        ELSE availability_data
                   /\ stored' = IF out.kind = "store"
                                THEN (path :> out.result) @@ stored ELSE stored
    /\ UNCHANGED <<sw_pc, sw_lvl, tree, dirs>>
    /\ UNCHANGED notSw

\* The listing is exhausted: the next level, or return availability_data.
EndLevel ==
    /\ sw_pc = "file"
    /\ listing = <<>>
    /\ NextLevel
    /\ UNCHANGED <<tree, dirs, listing, availability_data, empty_files, errors,
                   handled, stored>>
    /\ UNCHANGED notSw

NextSweep == SkipLevel \/ ListLevel \/ ProcessFile \/ EndLevel

SpecSweep == InitSweep /\ [][NextSweep]_vars

(***************************************************************************)
(*      read_aod_data: map_utils.py, AeronetProcessor, analyze_availability *)
(***************************************************************************)

\* Most data rows of a modelled raw file.
MaxRows == 2

\* The AOD_500nm values of the modelled files besides the sentinel.
AodValues == {0, 5}

\* -999.000000, the missing-data value of the raw files.
SENTINEL == 0 - 999

\* The days the modelled rows are dated.
ParserDays == {1, 2}

\* The date field of a row: a dd:mm:yyyy date, an empty field, or text
\* that no date format and no date inference accepts.
DateFields ==
    [kind : {"dmy"}, day : ParserDays]
        \cup {[kind |-> "blank", day |-> NaT], [kind |-> "garbage", day |-> NaT]}

\* The AOD_500nm field of a row: a decimal number or other text.
AodFields ==
    [kind : {"number"}, val : AodValues \cup {SENTINEL}]
        \cup {[kind |-> "text", val |-> 0]}

RawRows == [date : DateFields, aod : AodFields]

\* A raw file: whether some line contains both 'Date' and 'AOD', whether the
\* header has a column containing 'AOD_500', and the data rows.
RawFiles ==
    [header : {TRUE}, aod_col : BOOLEAN,
     rows : UNION {[1..n -> RawRows] : n \in 0..MaxRows}]
        \cup {[header |-> FALSE, aod_col |-> FALSE, rows |-> <<>>]}

None == [none |-> TRUE, rows |-> <<>>]

Frame(rows) == [none |-> FALSE, rows |-> rows]

\* A cell of a converted column: a value, or NaT / NaN.
Cell(v) == [na |-> FALSE, v |-> v]

NA == [na |-> TRUE, v |-> 0]

\* pd.to_datetime(column, format='%d:%m:%Y', errors='coerce') on one field.
to_datetime_coerce(f) == IF f.kind = "dmy" THEN Cell(f.day) ELSE NA

\* pd.to_numeric(column, errors='coerce') on one field.
to_numeric_coerce(f) == IF f.kind = "number" THEN Cell(f.val) ELSE NA

\* map_utils.py lines 256-265: the three conversions of the date column,
\* none with errors='coerce'.  An empty field converts to NaT; a field that
\* is no date makes the first conversion raise, and then the other two.
DateConversionRaises(rows) == \E k \in 1..Len(rows) : rows[k].date.kind = "garbage"

Convert(rows) ==
    [k \in 1..Len(rows) |->
        [date |-> to_datetime_coerce(rows[k].date),
         aod |-> to_numeric_coerce(rows[k].aod)]]

\* df.dropna(subset=[date, aod])
dropna(frame) == LET Whole(r) == ~r.date.na /\ ~r.aod.na IN SelectSeq(frame, Whole)

sentinel_to_zero(frame) ==
    [k \in 1..Len(frame) |->
        IF frame[k].aod.v = SENTINEL
        THEN [frame[k] EXCEPT !.aod = Cell(0)] ELSE frame[k]]

\* df[df[aod] != -999.000000]
drop_sentinel(frame) == LET Real(r) == r.aod.v # SENTINEL IN SelectSeq(frame, Real)

\* df[[date, aod]] with the columns renamed: the (date, aod_500nm) pairs.
Project(frame) == [k \in 1..Len(frame) |-> <<frame[k].date.v, frame[k].aod.v>>]

\* process_aeronet_availability.py lines 84-121 and analyze_availability.py
\* lines 22-59, which are the same code.
read_aod_data_coerce(f) ==
    IF ~f.header THEN None
    ELSE IF ~f.aod_col THEN None
    ELSE Frame(Project(drop_sentinel(dropna(Convert(f.rows)))))

\* map_utils.py lines 225-292.
read_aod_data_map_utils(f) ==
    IF ~f.header THEN None
    ELSE IF DateConversionRaises(f.rows) THEN None
    ELSE IF ~f.aod_col THEN None
    ELSE Frame(Project(drop_sentinel(dropna(Convert(f.rows)))))

InitParser ==
    /\ pa_pc = "ready"
    /\ raw_file \in RawFiles
    /\ parsed = None
    /\ OthersIdle("parser")

ReadMapUtils ==
    /\ pa_pc = "ready"
    /\ parsed' = read_aod_data_map_utils(raw_file)
    /\ pa_pc' = "map_utils"
    /\ UNCHANGED raw_file
    /\ UNCHANGED notPa

ReadProcessor ==
    /\ pa_pc = "ready"
    /\ parsed' = read_aod_data_coerce(raw_file)
    /\ pa_pc' = "AeronetProcessor"
    /\ UNCHANGED raw_file
    /\ UNCHANGED notPa

ReadAnalyze ==
    /\ pa_pc = "ready"
    /\ parsed' = read_aod_data_coerce(raw_file)
    /\ pa_pc' = "analyze_availability"
    /\ UNCHANGED raw_file
    /\ UNCHANGED notPa

NextParser == ReadMapUtils \/ ReadProcessor \/ ReadAnalyze

SpecParser == InitParser /\ [][NextParser]_vars

(***************************************************************************)
(*                        Properties of read_aod_data                      *)
(***************************************************************************)

\* The rows the parser contract keeps: a dd:mm:yyyy date, a numeric AOD
\* value, and that value not the sentinel.
Kept(r) ==
    /\ r.date.kind = "dmy"
    /\ r.aod.kind = "number"
    /\ r.aod.val # 0 - 999

KeptPairs(rows) ==
    LET ks == SelectSeq(rows, Kept)
    IN  [k \in 1..Len(ks) |-> <<ks[k].date.day, ks[k].aod.val>>]

DaysPerYear == 2

NumYears == 1

\* Most dates with measurements in a modelled frame.
MaxDataDays == 3

\* The numbers of measurements a date with data can have.
CountValues == {1, 2, 3, 8, 10}

start_year == 1995

end_year == start_year + NumYears - 1

\* The k-th day of year y, and the year of a date.
Date(y, k) == y * DaysPerYear + (k - 1)

YearOf(d) == d \div DaysPerYear

CalendarDates ==
    {Date(y, k) : y \in (start_year - 1)..(end_year + 1), k \in 1..DaysPerYear}

\* datetime(start_year, 1, 1) and datetime(end_year, 12, 31)
period_start == Date(start_year, 1)

period_end == Date(end_year, DaysPerYear)

\* self.total_days (line 72) and total_possible_days (map_utils.py line 756)
period_total_days == (period_end - period_start) + 1

MIN_MEASUREMENTS_PER_DAY == 8

MinOptions == {2, MIN_MEASUREMENTS_PER_DAY}

\* threshold_multiplier = 1.5, as the fraction 3/2.  Averages, thresholds
\* and percentages are kept as exact fractions <<numerator, denominator>>.
threshold_multiplier == <<3, 2>>

InPeriod_any(d) == TRUE

\* line 137: the mask on df['date'].dt.year
InPeriod(d) == YearOf(d) >= start_year /\ YearOf(d) <= end_year

\* df.groupby(df['date'].dt.date).size() over the rows whose date is in D:
\* one entry for every date that has rows.
GroupByDate(m, D) == [d \in {x \in D : m[x] > 0} |-> m[d]]

RECURSIVE SumOver(_, _)
SumOver(f, D) ==
    IF D = {} THEN 0
    ELSE LET d == CHOOSE x \in D : TRUE IN f[d] + SumOver(f, D \ {d})

dynamic_threshold_floor(floor, sum, n) == <<floor, 1>>

\* lines 154-157: max(min_measurements_per_day, avg * threshold_multiplier)
\* for avg = sum / n.
dynamic_threshold(floor, sum, n) ==
    IF floor * (n * threshold_multiplier[2]) >= sum * threshold_multiplier[1]
    THEN <<floor, 1>>
    ELSE <<sum * threshold_multiplier[1], n * threshold_multiplier[2]>>

AtLeast_strict(count, threshold) == count * threshold[2] > threshold[1]

\* daily_counts >= threshold, for one count.
AtLeast(count, threshold) == count * threshold[2] >= threshold[1]

NoStats == [none |-> TRUE]

\* AeronetProcessor.calculate_availability(df), lines 133-177.
calculate_availability(m, floor) ==
    LET inside == {d \in DOMAIN m : InPeriod(d)}
        daily_counts == GroupByDate(m, inside)
        with_data == {d \in DOMAIN daily_counts : daily_counts[d] > 0}
        total_days == Cardinality(DOMAIN daily_counts)
        days_with_data == Cardinality(with_data)
        sum == SumOver(daily_counts, with_data)
        threshold == dynamic_threshold(floor, sum, days_with_data)
        representative_days ==
            Cardinality({d \in DOMAIN daily_counts : AtLeast(daily_counts[d], threshold)})
    IN  IF \A d \in DOMAIN m : m[d] = 0 THEN NoStats
        ELSE IF DOMAIN daily_counts = {} THEN NoStats
        ELSE [none |-> FALSE,
              total_days |-> total_days,
              days_with_data |-> days_with_data,
              representative_days |-> representative_days,
              availability_percentage |-> <<days_with_data * 100, period_total_days>>,
              representative_percentage |-> <<representative_days * 100, period_total_days>>,
              avg_measurements |-> <<sum, days_with_data>>,
              dynamic_threshold |-> threshold]

MeetsMinimum_strict(count, m) == count > m

\* map_utils.py line 780: measurements_per_day >= min_measurements_per_day,
\* for one count.
MeetsMinimum(count, m) == count >= m

\* calculate_representative_days(file_path, min_measurements_per_day),
\* map_utils.py lines 749-810, m being the frame read_aod_data returned.
calculate_representative_days(m, floor) ==
    LET measurements_per_day == GroupByDate(m, DOMAIN m)
        total_days == Cardinality(DOMAIN measurements_per_day)
        representative_days ==
            Cardinality({d \in DOMAIN measurements_per_day :
                            MeetsMinimum(measurements_per_day[d], floor)})
    IN  IF \A d \in DOMAIN m : m[d] = 0
        THEN [none |-> FALSE,
              total_possible_days |-> period_total_days,
              total_days |-> 0,
              representative_days |-> 0,
              representative_days_percentage |-> <<0, 1>>,
              representative_days_percentage_total |-> <<0, 1>>]
        ELSE [none |-> FALSE,
              total_possible_days |-> period_total_days,
              total_days |-> total_days,
              representative_days |-> representative_days,
              representative_days_percentage |-> <<representative_days * 100, total_days>>,
              representative_days_percentage_total |->
                  <<representative_days * 100, period_total_days>>]

\* calculate_daily_availability(df), analyze_availability.py lines 65-82.
calculate_daily_availability(m) ==
    LET daily_counts == GroupByDate(m, DOMAIN m)
        total_days == Cardinality(DOMAIN daily_counts)
        days_with_data ==
            Cardinality({d \in DOMAIN daily_counts : daily_counts[d] > 0})
    IN  IF \A d \in DOMAIN m : m[d] = 0 THEN NoStats
        ELSE [none |-> FALSE,
              total_days |-> total_days,
              days_with_data |-> days_with_data,
              availability_percentage |->
                  IF total_days > 0 THEN <<days_with_data * 100, total_days>>
                  ELSE <<0, 1>>,
              avg_measurements |->
                  <<SumOver(daily_counts, DOMAIN daily_counts), total_days>>]

InitAvailability ==
    /\ av_pc = "ready"
    /\ \E D \in {S \in SUBSET CalendarDates : Cardinality(S) <= MaxDataDays} :
       \E c \in [D -> CountValues] :
          measurements = [d \in CalendarDates |-> IF d \in D THEN c[d] ELSE 0]
    /\ min_measurements_per_day \in MinOptions
    /\ stats = NoStats
    /\ OthersIdle("availability")

CalculateAvailability ==
    /\ av_pc = "ready"
    /\ stats' = calculate_availability(measurements, min_measurements_per_day)
    /\ av_pc' = "calculate_availability"
    /\ UNCHANGED <<measurements, min_measurements_per_day>>
    /\ UNCHANGED notAv

CalculateRepresentativeDays ==
    /\ av_pc = "ready"
    /\ stats' = calculate_representative_days(measurements, min_measurements_per_day)
    /\ av_pc' = "calculate_representative_days"
    /\ UNCHANGED <<measurements, min_measurements_per_day>>
    /\ UNCHANGED notAv

CalculateDailyAvailability ==
    /\ av_pc = "ready"
    /\ stats' = calculate_daily_availability(measurements)
    /\ av_pc' = "calculate_daily_availability"
    /\ UNCHANGED <<measurements, min_measurements_per_day>>
    /\ UNCHANGED notAv

NextAvailability ==
    \/ CalculateAvailability
    \/ CalculateRepresentativeDays
    \/ CalculateDailyAvailability

SpecAvailability == InitAvailability /\ [][NextAvailability]_vars

(***************************************************************************)
(*                  Properties of the availability statistics              *)
(***************************************************************************)

Returned(fn) == av_pc = fn /\ ~stats.none

\* A fraction <<n, d>> that lies in [0, 100].
IsPercentage(q) == q[2] > 0 /\ q[1] >= 0 /\ q[1] <= 100 * q[2]

\* C8: every record calculate_availability returns has
\* 0 <= representative_days <= days_with_data <= self.total_days, and both
\* percentages lie in [0, 100].
C8_AvailabilityCountsBounded ==
    Returned("calculate_availability") =>
        /\ 0 <= stats.representative_days
        /\ stats.representative_days <= stats.days_with_data
        /\ stats.days_with_data <= NumYears * DaysPerYear
        /\ IsPercentage(stats.availability_percentage)
        /\ IsPercentage(stats.representative_percentage)

\* Measurements on every day of the period and outside it.
C8_Witness ==
    /\ Returned("calculate_availability")
    /\ \E d \in CalendarDates : ~InPeriod(d) /\ measurements[d] > 0
    /\ stats.days_with_data = NumYears * DaysPerYear
    /\ stats.representative_days >= 1

\* C9: the record calculate_representative_days returns has
\* representative_days <= total_days <= total_possible_days and
\* representative_days_percentage_total <= 100, also for a file with
\* measurements dated outside the period.
C9_RepresentativeDaysBounded ==
    Returned("calculate_representative_days") =>
        /\ stats.representative_days <= stats.total_days
        /\ stats.total_days <= stats.total_possible_days
        /\ stats.representative_days_percentage_total[1]
              <= 100 * stats.representative_days_percentage_total[2]

\* The dates of the period that have measurements, and their counts.
DataDays == {d \in CalendarDates : InPeriod(d) /\ measurements[d] > 0}

TotalCount == SumOver(measurements, DataDays)

\* C10: the dynamic threshold is max(min_measurements_per_day,
\* avg_measurements * 1.5) with avg_measurements the mean count of the days
\* with data, and the representative days are exactly the days whose count
\* is at least the threshold; an average of 5 with the floor 8 gives 8.
C10_DynamicThreshold ==
    Returned("calculate_availability") =>
        LET n == Cardinality(DataDays)
            t == stats.dynamic_threshold
        IN  /\ stats.avg_measurements[1] * n = TotalCount * stats.avg_measurements[2]
            \* t >= floor, t >= 1.5 avg, and t is one of the two
            /\ t[1] >= min_measurements_per_day * t[2]
            /\ t[1] * (2 * n) >= (3 * TotalCount) * t[2]
            /\ \/ t[1] = min_measurements_per_day * t[2]
               \/ t[1] * (2 * n) = (3 * TotalCount) * t[2]
            /\ stats.representative_days
                  = Cardinality({d \in DataDays : measurements[d] * t[2] >= t[1]})
            /\ (TotalCount = 5 * n /\ min_measurements_per_day = 8) => t = <<8, 1>>

\* Counts 8 and 2: the average is 5, the threshold is the floor 8, and the
\* day of 8 measurements is representative.
C10_Witness ==
    /\ Returned("calculate_availability")
    /\ min_measurements_per_day = 8
    /\ Cardinality(DataDays) = 2
    /\ TotalCount = 10
    /\ stats.dynamic_threshold = <<8, 1>>
    /\ stats.representative_days = 1

\* C29: under the dynamic threshold of calculate_availability (multiplier
\* 1.5), a station whose days with data all have the same count c, with
\* c * 1.5 > min_measurements_per_day, has no representative day (with the
\* floor 8: any uniform count c >= 6); in general the representative days
\* are never more than the days whose count is >= min_measurements_per_day.
C29_UniformCountsNeverRepresentative ==
    Returned("calculate_availability") =>
        /\ \A c \in CountValues :
              (/\ \A d \in DataDays : measurements[d] = c
               /\ \/ 3 * c > 2 * min_measurements_per_day
                  \/ min_measurements_per_day = 8 /\ c >= 6)
                 => stats.representative_days = 0
        /\ stats.representative_days
              <= Cardinality({d \in DataDays :
                                measurements[d] >= min_measurements_per_day})

\* Two days of 10 measurements each with the floor 8: the threshold is 15
\* and no day is representative.
C29_Witness ==
    /\ Returned("calculate_availability")
    /\ min_measurements_per_day = 8
    /\ Cardinality(DataDays) >= 2
    /\ \A d \in DataDays : measurements[d] = 10
    /\ stats.dynamic_threshold[1] = 15 * stats.dynamic_threshold[2]
    /\ stats.representative_days = 0

\* C19: for a frame whose dates all lie in the analysis period,
\* calculate_daily_availability reports the same days_with_data and the
\* same availability percentage as AeronetProcessor.calculate_availability
\* and process_data: the days with data over the total days of the
\* analysis period, times 100.
C19_AnalyzerAgreesWithProcessors ==
    (/\ Returned("calculate_daily_availability")
     /\ \A d \in CalendarDates : measurements[d] > 0 => InPeriod(d)) =>
        LET ref == calculate_availability(measurements, min_measurements_per_day)
        IN  /\ stats.days_with_data = ref.days_with_data
            /\ stats.availability_percentage[1] * ref.availability_percentage[2]
                  = ref.availability_percentage[1] * stats.availability_percentage[2]
            /\ stats.availability_percentage[1] * period_total_days
                  = (stats.days_with_data * 100) * stats.availability_percentage[2]

\* C11: calculate_representative_days reports as representative_days the
\* number of calendar dates whose count of measurements is at least
\* min_measurements_per_day, a count equal to it included; the daily counts
\* 10, 3 and 8 with the minimum 8 give 2.
C11_RepresentativeDaysCount ==
    Returned("calculate_representative_days") =>
        LET days == {d \in CalendarDates : measurements[d] > 0}
            counts == {measurements[d] : d \in days}
        IN  /\ stats.representative_days
                  = Cardinality({d \in days :
                                   measurements[d] >= min_measurements_per_day})
            /\ (/\ Cardinality(days) = 3
                /\ counts = {10, 3, 8}
                /\ min_measurements_per_day = 8) => stats.representative_days = 2

\* Three days with 10, 3 and 8 measurements and the minimum 8.
C11_Witness ==
    /\ Returned("calculate_representative_days")
    /\ min_measurements_per_day = 8
    /\ Cardinality({d \in CalendarDates : measurements[d] > 0}) = 3
    /\ {measurements[d] : d \in CalendarDates} = {0, 10, 3, 8}
    /\ stats.representative_days = 2

(***************************************************************************)
(*                    etl_aeronet_data.py: identify_gaps                   *)
(***************************************************************************)

\* Calendar dates are the day numbers 1..MaxDay; NaT (0) is a cell that is
\* not a date, and the start_date / end_date arguments are a day or None.
MaxDay == 9

GapDays == 1..MaxDay

\* start_date=None, end_date=None (line 160)
NoDate == 0

\* df[date_column].min() and .max(): NaT cells are skipped, and the result
\* is NaT when no cell is a date.
ColumnMin(col) ==
    IF col \ {NaT} = {} THEN NaT
    ELSE CHOOSE d \in col \ {NaT} : \A e \in col \ {NaT} : d <= e

ColumnMax(col) ==
    IF col \ {NaT} = {} THEN NaT
    ELSE CHOOSE d \in col \ {NaT} : \A e \in col \ {NaT} : d >= e

\* sorted(S) for a set of dates.
RECURSIVE Sorted(_)
Sorted(S) ==
    IF S = {} THEN <<>>
    ELSE LET d == CHOOSE x \in S : \A y \in S : x <= y
         IN  <<d>> \o Sorted(S \ {d})

NotConsecutive_two(a, b) == b - a > 2

\* line 197: (missing_dates[i] - missing_dates[i - 1]).days > 1
NotConsecutive(a, b) == b - a > 1

\* lines 196-200: the for loop from index i on (1-based), with the values
\* gap_start and gaps have on entry; the result is <<gap_start, gaps>>.
RECURSIVE gap_loop(_, _, _, _)
gap_loop(missing_dates, i, gap_start, acc) ==
    IF i > Len(missing_dates) THEN <<gap_start, acc>>
    ELSE IF NotConsecutive(missing_dates[i - 1], missing_dates[i])
    THEN LET gap_end == missing_dates[i - 1]
         IN  gap_loop(missing_dates, i + 1, missing_dates[i],
                      Append(acc, <<gap_start, gap_end, (gap_end - gap_start) + 1>>))
    ELSE gap_loop(missing_dates, i + 1, gap_start, acc)

\* identify_gaps(df, date_column, start_date, end_date), lines 173-207.
\* pd.date_range raises when a bound is NaT.
identify_gaps(col, s, e) ==
    LET first == IF s # NoDate THEN s ELSE ColumnMin(col)
        final == IF e # NoDate THEN e ELSE ColumnMax(col)
        full_date_range == first..final
        actual_dates == col \ {NaT}
        missing_dates == Sorted(full_date_range \ actual_dates)
        after == gap_loop(missing_dates, 2, missing_dates[1], <<>>)
        gap_end == missing_dates[Len(missing_dates)]
    IN  IF first = NaT \/ final = NaT THEN [raised |-> TRUE, gaps |-> <<>>]
        ELSE IF missing_dates = <<>> THEN [raised |-> FALSE, gaps |-> <<>>]
        ELSE [raised |-> FALSE,
              gaps |-> Append(after[2],
                              <<after[1], gap_end, (gap_end - after[1]) + 1>>)]

InitGaps ==
    /\ gp_pc = "ready"
    /\ gp_column \in SUBSET ({NaT} \cup GapDays)
    /\ gp_start \in {NoDate} \cup GapDays
    /\ gp_end \in {NoDate} \cup GapDays
    /\ gaps = <<>>
    /\ OthersIdle("gaps")

IdentifyGaps ==
    /\ gp_pc = "ready"
    /\ LET r == identify_gaps(gp_column, gp_start, gp_end)
       IN  /\ gp_pc' = IF r.raised THEN "raised" ELSE "returned"
           /\ gaps' = r.gaps
    /\ UNCHANGED <<gp_column, gp_start, gp_end>>
    /\ UNCHANGED notGp

NextGaps == IdentifyGaps

SpecGaps == InitGaps /\ [][NextGaps]_vars

\* The analysis range of a call and its dates without an observation.
RangeFirst == IF gp_start # NoDate THEN gp_start ELSE ColumnMin(gp_column)

RangeLast == IF gp_end # NoDate THEN gp_end ELSE ColumnMax(gp_column)

MissingDates == {d \in RangeFirst..RangeLast : d \notin gp_column}

\* C13: identify_gaps returns the maximal runs of consecutive dates of the
\* analysis range (the explicit bounds, else the smallest and largest
\* observed date) that are not observed: every gap is (first, last,
\* last - first + 1) over missing dates only, the gaps are ascending,
\* disjoint and never adjacent, and together they hold every missing date.
\* The dates 1, 2 and 9 without bounds give the single gap (3, 8, 6).
C13_GapsAreMaximalMissingRuns ==
    gp_pc = "returned" =>
        /\ \A k \in 1..Len(gaps) :
              /\ gaps[k][1] <= gaps[k][2]
              /\ gaps[k][3] = (gaps[k][2] - gaps[k][1]) + 1
              /\ \A d \in gaps[k][1]..gaps[k][2] : d \in MissingDates
        /\ \A k \in 1..(Len(gaps) - 1) : gaps[k][2] + 1 < gaps[k + 1][1]
        /\ \A d \in MissingDates :
              \E k \in 1..Len(gaps) : gaps[k][1] <= d /\ d <= gaps[k][2]
        /\ (gp_column = {1, 2, 9} /\ gp_start = NoDate /\ gp_end = NoDate)
              => gaps = << <<3, 8, 6>> >>

\* Observed dates 1, 2 and 9, no explicit bounds: the gap from 3 to 8.
C13_Witness ==
    /\ gp_pc = "returned"
    /\ gp_column = {1, 2, 9}
    /\ gp_start = NoDate
    /\ gp_end = NoDate
    /\ gaps = << <<3, 8, 6>> >>

(***************************************************************************)
(*                   map_utils.py: get_marker_properties                   *)
(***************************************************************************)

\* Availabilities are whole percents.
Percentages == 0..100

\* get_marker_properties(availability), lines 375-380.
get_marker_properties(availability) ==
    IF availability >= 75 THEN <<"#2ecc71", "high">>
    ELSE IF availability >= 50 THEN <<"#f1c40f", "medium">>
    ELSE <<"#e74c3c", "low">>

InitMarker ==
    /\ mk_pc = "ready"
    /\ mk_availability \in Percentages
    /\ mk_props = <<>>
    /\ OthersIdle("marker")

GetMarkerProperties ==
    /\ mk_pc = "ready"
    /\ mk_props' = get_marker_properties(mk_availability)
    /\ mk_pc' = "returned"
    /\ UNCHANGED mk_availability
    /\ UNCHANGED notMk

NextMarker == GetMarkerProperties

SpecMarker == InitMarker /\ [][NextMarker]_vars

\* C14: get_marker_properties maps an availability of at least 75 to
\* ('#2ecc71', 'high'), one in [50, 75) to ('#f1c40f', 'medium'), one in
\* (0, 50) to ('#e74c3c', 'low'), and the availability 0 to the no-data
\* gray '#808080'.
C14_MarkerColourPolicy ==
    mk_pc = "returned" =>
        /\ mk_availability >= 75 => mk_props = <<"#2ecc71", "high">>
        /\ (mk_availability >= 50 /\ mk_availability < 75)
              => mk_props = <<"#f1c40f", "medium">>
        /\ (mk_availability > 0 /\ mk_availability < 50)
              => mk_props = <<"#e74c3c", "low">>
        /\ mk_availability = 0 => mk_props[1] = "#808080"

(***************************************************************************)
(*                     map_utils.py: extract_kmz_data                      *)
(***************************************************************************)

\* Most Placemark elements of a modelled catalog.
MaxPlacemarks == 2

\* Station names of the catalog; NoName is a Placemark without a name.
CatalogNames == {"Cuiaba", "Alta_Floresta"}

NoName == ""

\* The text of a Placemark's coordinates element: "lon,lat,alt" with
\* numbers, text float() rejects, fewer than two fields, or no element.
CoordTexts == {"numbers", "malformed", "short", "missing"}

Placemarks == [name : CatalogNames \cup {NoName}, coords : CoordTexts]

\* A KMZ file: whether it can be opened as a zip archive that holds a
\* .kml member in UTF-8, and the Placemark elements of that member.
KmzArchives ==
    [opens : BOOLEAN,
     placemarks : UNION {[1..n -> Placemarks] : n \in 0..MaxPlacemarks}]

\* lines 57-82 for one placemark: whether a station record is appended.
\* The ValueError of float() is caught at line 78.
Extracted(pm) == pm.name # NoName /\ pm.coords = "numbers"

\* extract_kmz_data(kmz_file), lines 39-93: the exception of lines 41-54 is
\* re-raised (line 86); an empty list is returned like any other (line 88
\* only logs).
extract_kmz_data(kmz) ==
    IF ~kmz.opens THEN [raised |-> TRUE, stations |-> <<>>]
    ELSE LET kept == SelectSeq(kmz.placemarks, Extracted)
         IN  [raised |-> FALSE,
              stations |-> [k \in 1..Len(kept) |-> [name |-> kept[k].name]]]

InitKmz ==
    /\ km_pc = "ready"
    /\ kmz_file \in KmzArchives
    /\ km_stations = <<>>
    /\ OthersIdle("kmz")

ExtractKmzData ==
    /\ km_pc = "ready"
    /\ LET r == extract_kmz_data(kmz_file)
       IN  /\ km_pc' = IF r.raised THEN "raised" ELSE "returned"
           /\ km_stations' = r.stations
    /\ UNCHANGED kmz_file
    /\ UNCHANGED notKm

NextKmz == ExtractKmzData

SpecKmz == InitKmz /\ [][NextKmz]_vars

\* C17: extract_kmz_data does not return normally when the archive cannot
\* be opened or parsed or yields no station record, while a placemark with
\* malformed coordinate text is only skipped: the other placemarks are
\* extracted, in order.
C17_EmptyCatalogIsAnError ==
    /\ km_pc \in {"returned", "raised"} =>
          (km_pc = "raised" <=>
              (~kmz_file.opens \/ SelectSeq(kmz_file.placemarks, Extracted) = <<>>))
    /\ km_pc = "returned" =>
          LET kept == SelectSeq(kmz_file.placemarks, Extracted)
          IN  km_stations = [k \in 1..Len(kept) |-> [name |-> kept[k].name]]

(***************************************************************************)
(*                  map_utils.py: create_south_america_map                 *)
(***************************************************************************)

\* What load_station_data finds for a station: no file of any level that
\* read_aod_data can read (it returns None), or data, given by the
\* availability calculate_data_availability computes from it.
NoData == 0 - 1

AvailabilityValues == {0, 10, 60, 80}

\* calculate_data_availability(data), lines 134-135 and 209.
calculate_data_availability(data) == IF data = NoData THEN 0 ELSE data

\* The subscripts lines 464-468 apply to marker_props.
StringKeys == {"size", "color"}

\* marker_props[key] for the value get_marker_properties returned: a tuple
\* is subscripted by its positions, and a string subscript raises TypeError.
Subscript(props, key) ==
    IF key \in StringKeys THEN [raised |-> TRUE, value |-> ""]
    ELSE [raised |-> FALSE, value |-> props[key]]

\* lines 445-483 for one row of stations_df: the marker that is added.
add_station(name, data) ==
    LET availability == calculate_data_availability(data)
        marker_props == get_marker_properties(availability)
        radius == Subscript(marker_props, "size")
        color == Subscript(marker_props, "color")
    IN  IF radius.raised \/ color.raised
        THEN [station |-> name, color |-> "gray", popup |-> "Error processing station"]
        ELSE [station |-> name, color |-> color.value, popup |-> "Data Availability"]

InitMap ==
    /\ mp_pc = "start"
    /\ kmz_present \in BOOLEAN
    /\ kmz_remote \in KmzArchives
    /\ station_availability \in [CatalogNames -> {NoData} \cup AvailabilityValues]
    /\ stations_df = <<>>
    /\ mp_i = 0
    /\ markers = <<>>
    /\ mp_result = ""
    /\ OthersIdle("map")

\* lines 422-441 when everything succeeds: ensure_kmz_file (the file is
\* there, or the download succeeds), extract_kmz_data and the column check.
LoadCatalog ==
    /\ mp_pc = "start"
    /\ LET r == extract_kmz_data(kmz_remote)
       IN  /\ ~r.raised
           /\ r.stations # <<>>
           /\ stations_df' = r.stations
    /\ kmz_present' = TRUE
    /\ mp_pc' = "loop"
    /\ mp_i' = 1
    /\ UNCHANGED <<kmz_remote, station_availability, markers, mp_result>>
    /\ UNCHANGED notMp

\* The same lines when they fail: the download raises (line 403), the
\* archive cannot be read (line 86), or the frame of an empty catalog has
\* no latitude column (line 434).  The function returns None.
CatalogFails ==
    /\ mp_pc = "start"
    /\ \/ /\ ~kmz_present
          /\ kmz_present' = FALSE
       \/ /\ LET r == extract_kmz_data(kmz_remote)
             IN  r.raised \/ r.stations = <<>>
          /\ kmz_present' = TRUE
    /\ mp_pc' = "done"
    /\ mp_result' = "None"
    /\ UNCHANGED <<kmz_remote, station_availability, stations_df, mp_i, markers>>
    /\ UNCHANGED notMp

\* lines 444-483: one iteration of the loop over stations_df.
AddStation ==
    /\ mp_pc = "loop"
    /\ mp_i <= Len(stations_df)
    /\ LET name == stations_df[mp_i].name
       IN  markers' = Append(markers, add_station(name, station_availability[name]))
    /\ mp_i' = mp_i + 1
    /\ UNCHANGED <<mp_pc, kmz_present, kmz_remote, station_availability,
                   stations_df, mp_result>>
    /\ UNCHANGED notMp

\* lines 486-491: the map is saved and its path returned.
SaveMap ==
    /\ mp_pc = "loop"
    /\ mp_i > Len(stations_df)
    /\ mp_pc' = "done"
    /\ mp_result' = "output_path"
    /\ UNCHANGED <<kmz_present, kmz_remote, station_availability, stations_df,
                   mp_i, markers>>
    /\ UNCHANGED notMp

NextMap == LoadCatalog \/ CatalogFails \/ AddStation \/ SaveMap

SpecMap == InitMap /\ [][NextMap]_vars

\* C15: the saved map has one circular marker per catalog station, in the
\* colour the discrete policy assigns to the availability computed for the
\* station; the gray marker is used only for a station for which no level
\* yields data.
C15_MarkerPerStationInPolicyColour ==
    mp_result = "output_path" =>
        /\ Len(markers) = Len(stations_df)
        /\ \A k \in 1..Len(markers) :
              LET name == stations_df[k].name
                  data == station_availability[name]
              IN  /\ markers[k].station = name
                  /\ markers[k].color
                        = get_marker_properties(calculate_data_availability(data))[1]
                  /\ markers[k].color \in {"gray", "#808080"} => data = NoData

(***************************************************************************)
(*            map_utils.py: calculate_all_stations_availability            *)
(***************************************************************************)

\* Station names as the downloader writes them into file names, split at
\* '_'; the catalog lists the first two.
StationTokens == {<<"Cuiaba">>, <<"Alta", "Floresta">>, <<"Alta", "Floresta", "IF">>}

\* A file of a level directory: the directory's level, the station of the
\* file name, the level of the file name's _AOD{level}_all_points.txt
\* suffix, and whether calculate_representative_days returns a statistics
\* dictionary for it (None when it catches an exception, line 812).
LevelFiles == [dir : Levels, station : StationTokens, aod : Levels, yields : BOOLEAN]

FileId(f) == <<f.dir, f.station, f.aod>>

\* The catalogs the aggregation is run with.
GeosCatalogs == {
    [opens |-> FALSE, placemarks |-> <<>>],
    [opens |-> TRUE, placemarks |-> <<>>],
    [opens |-> TRUE, placemarks |-> <<[name |-> "Cuiaba", coords |-> "numbers"]>>],
    [opens |-> TRUE, placemarks |-> <<[name |-> "Alta_Floresta", coords |-> "numbers"],
                                      [name |-> "Cuiaba", coords |-> "malformed"]>>] }

\* The keys of a record extract_kmz_data builds (lines 72-76).
StationRecordKeys == {"name", "latitude", "longitude"}

\* line 847: f.endswith(f'_AOD{level}_all_points.txt')
MatchesLevel(f, level) == f.aod = level

\* line 850: file.split('_')[0]
first_token(f) == f.station[1]

\* The value of a Python function that ends without a return statement.
ReturnsNone == [raised |-> FALSE, none |-> TRUE, value |-> <<>>]

\* An exception leaves the function.
Raises == [raised |-> TRUE, none |-> FALSE, value |-> <<>>]

InitAllStations ==
    /\ as_pc = "catalog"
    /\ as_lvl = 1
    /\ geos_kmz \in GeosCatalogs
    /\ \E n \in 0..MaxFiles : \E fs \in [1..n -> LevelFiles] :
          /\ \A i, j \in 1..n : FileId(fs[i]) = FileId(fs[j]) => i = j
          /\ level_files = {fs[k] : k \in 1..n}
    /\ level_dirs \in {D \in SUBSET Levels : \A f \in level_files : f.dir \in D}
    /\ stations_dict = <<>>
    /\ files = <<>>
    /\ results = <<>>
    /\ as_outcome = <<>>
    /\ OthersIdle("all_stations")

\* lines 829-834: the catalog, or {} when extract_kmz_data raises.
LoadStationsInfo ==
    /\ as_pc = "catalog"
    /\ LET r == extract_kmz_data(geos_kmz)
           names == {r.stations[k].name : k \in 1..Len(r.stations)}
       IN  stations_dict' = IF r.raised THEN <<>>
                            ELSE [n \in names |-> StationRecordKeys]
    /\ as_pc' = "level"
    /\ UNCHANGED <<as_lvl, geos_kmz, level_files, level_dirs, files, results,
                   as_outcome>>
    /\ UNCHANGED notAs

\* The for loop over levels goes on, or the function body ends (line 869):
\* there is no return statement.
AfterLevel ==
    IF as_lvl < Len(levels)
    THEN as_lvl' = as_lvl + 1 /\ as_pc' = "level" /\ UNCHANGED as_outcome
    ELSE as_lvl' = as_lvl /\ as_pc' = "done" /\ as_outcome' = ReturnsNone

\* lines 841-845
MissingLevelDir ==
    /\ as_pc = "level"
    /\ levels[as_lvl] \notin level_dirs
    /\ AfterLevel
    /\ UNCHANGED <<geos_kmz, level_files, level_dirs, stations_dict, files, results>>
    /\ UNCHANGED notAs

\* line 847: the matching files of the directory, in listing order.
ListLevelFiles ==
    /\ as_pc = "level"
    /\ levels[as_lvl] \in level_dirs
    /\ files' \in Listings({f \in level_files :
                              f.dir = levels[as_lvl] /\ MatchesLevel(f, levels[as_lvl])})
    /\ as_pc' = "file"
    /\ UNCHANGED <<as_lvl, geos_kmz, level_files, level_dirs, stations_dict,
                   results, as_outcome>>
    /\ UNCHANGED notAs

\* lines 849-869: one iteration of the loop over files.  A station found
\* in the catalog has its record subscripted with 'elevation' (line 863),
\* a key the record does not have: KeyError, which nothing catches.
ProcessLevelFile ==
    /\ as_pc = "file"
    /\ files # <<>>
    /\ LET f == Head(files)
           station == first_token(f)
           key == <<station, levels[as_lvl]>>
           new == station \notin {k[1] : k \in DOMAIN results}
       IN  IF ~f.yields
           THEN UNCHANGED <<results, as_pc, as_outcome>>
           ELSE IF new /\ station \in DOMAIN stations_dict
                       /\ "elevation" \notin stations_dict[station]
           THEN /\ results' = (<<station, "longitude">> :> "catalog")
                                 @@ (<<station, "latitude">> :> "catalog") @@ results
                /\ as_pc' = "done"
                /\ as_outcome' = Raises
           ELSE /\ results' = (key :> FileId(f)) @@ results
                /\ UNCHANGED <<as_pc, as_outcome>>
    /\ files' = Tail(files)
    /\ UNCHANGED <<as_lvl, geos_kmz, level_files, level_dirs, stations_dict>>
    /\ UNCHANGED notAs

EndLevelFiles ==
    /\ as_pc = "file"
    /\ files = <<>>
    /\ AfterLevel
    /\ UNCHANGED <<geos_kmz, level_files, level_dirs, stations_dict, files, results>>
    /\ UNCHANGED notAs

NextAllStations ==
    \/ LoadStationsInfo
    \/ MissingLevelDir
    \/ ListLevelFiles
    \/ ProcessLevelFile
    \/ EndLevelFiles

SpecAllStations == InitAllStations /\ [][NextAllStations]_vars

\* C16: calculate_all_stations_availability ends without raising, whether
\* or not a station is in the catalog, and returns to its caller a mapping
\* that holds, for every file *_AOD{level}_all_points.txt of the level
\* directories for which calculate_representative_days yields statistics,
\* an entry with the statistics of that file.
C16_AllStationsResultReturned ==
    as_pc = "done" =>
        /\ ~as_outcome.raised
        /\ ~as_outcome.raised =>
              /\ ~as_outcome.none
              /\ \A f \in level_files :
                    (f.dir \in level_dirs /\ MatchesLevel(f, f.dir) /\ f.yields)
                        => \E k \in DOMAIN as_outcome.value :
                              as_outcome.value[k] = FileId(f)

(***************************************************************************)
(*          data_processor.py: get_empty_files after process_data          *)
(***************************************************************************)

\* The data roots a processor is configured with: the working directory
\* itself, or the default 'data' (line 15).
DataDirs == {"", "data"}

\* The file contents of the runs whose accessors are called: an empty
\* file, a file without the AERONET first line, and a file that is stored.
AccessorContents == {
    ZeroBytes,
    [empty |-> FALSE, aeronet |-> FALSE, header |-> 6, ragged |-> TRUE,
     dates |-> <<start_date>>],
    [empty |-> FALSE, aeronet |-> TRUE, header |-> 6, ragged |-> TRUE,
     dates |-> <<start_date, end_date>>] }

\* os.path.join(root, 'AOD_data_lvl{level}', name)
JoinPath(root, p) == <<root>> \o p

\* The zero-byte .txt files of the level directories of the working
\* directory: those of the data root when it is the working directory.
CwdEmptyFiles ==
    IF data_dir = ""
    THEN {PathOf(e) : e \in {x \in tree : EndsWithTxt(x.name) /\ x.content.empty}}
    ELSE cwd_empty

\* get_empty_files(), lines 207-217: the sweep of the relative directories
\* AOD_data_lvl10, 15 and 20, each in the order the file system lists it.
get_empty_files(order10, order15, order20) ==
    LET all == order10 \o order15 \o order20
    IN  [k \in 1..Len(all) |-> JoinPath("", all[k])]

InitAccessors ==
    /\ SweepStart(AccessorContents)
    /\ ef_pc = "ready"
    /\ data_dir \in DataDirs
    /\ cwd_empty \in IF data_dir = "" THEN {{}}
                     ELSE {{}, {<<levels[1], file_names[1]>>}}
    /\ returned_empty = <<>>
    /\ OthersIdle("accessors")

GetEmptyFiles ==
    /\ sw_pc = "done"
    /\ ef_pc = "ready"
    /\ \E o10 \in Listings({p \in CwdEmptyFiles : p[1] = levels[1]}) :
       \E o15 \in Listings({p \in CwdEmptyFiles : p[1] = levels[2]}) :
       \E o20 \in Listings({p \in CwdEmptyFiles : p[1] = levels[3]}) :
          returned_empty' = get_empty_files(o10, o15, o20)
    /\ ef_pc' = "returned"
    /\ UNCHANGED <<data_dir, cwd_empty>>
    /\ UNCHANGED notEf

NextAccessors == NextSweep \/ GetEmptyFiles

SpecAccessors == InitAccessors /\ [][NextAccessors]_vars

\* C18: after process_data has run, get_empty_files returns exactly the
\* zero-byte files the integrity check recorded as empty during the run,
\* the files under the level directories of the configured data root, each
\* once.
C18_EmptyFilesAccessor ==
    ef_pc = "returned" =>
        /\ {returned_empty[k] : k \in 1..Len(returned_empty)}
              = {JoinPath(data_dir, empty_files[k]) : k \in 1..Len(empty_files)}
        /\ \A i, j \in 1..Len(returned_empty) :
              returned_empty[i] = returned_empty[j] => i = j

(***************************************************************************)
(*   The day count of the analysis window: AeronetProcessor.__init__,      *)
(*   calculate_representative_days and utils.calculate_date_range_days     *)
(***************************************************************************)

\* Dates are <<year, month, day>> of the proleptic Gregorian calendar, as
\* datetime and pd.Timestamp keep them.
IsLeap(y) == y % 4 = 0 /\ (y % 100 # 0 \/ y % 400 = 0)

DaysInMonth(y, m) ==
    IF m = 2 THEN (IF IsLeap(y) THEN 29 ELSE 28)
    ELSE IF m \in {4, 6, 9, 11} THEN 30
    ELSE 31

RECURSIVE DaysBeforeMonth(_, _)
DaysBeforeMonth(y, m) ==
    IF m = 1 THEN 0 ELSE DaysBeforeMonth(y, m - 1) + DaysInMonth(y, m - 1)

DaysBeforeYear(y) ==
    ((y - 1) * 365 + ((y - 1) \div 4) - ((y - 1) \div 100)) + ((y - 1) \div 400)

\* date.toordinal(): the day number of a date, 0001-01-01 being day 1.
Ordinal(date) == (DaysBeforeYear(date[1]) + DaysBeforeMonth(date[1], date[2])) + date[3]

day_count_exclusive(first, final) == Ordinal(final) - Ordinal(first)

\* (end - start).days + 1
day_count(first, final) == (Ordinal(final) - Ordinal(first)) + 1

\* The windows the functions are called with.
StartYears == 1993..1997

EndYears == 2022..2026

MonthDays == {<<1, 1>>, <<2, 28>>, <<3, 1>>, <<12, 31>>}

DEFAULT_START == <<1995, 1, 1>>

DEFAULT_END == <<2024, 12, 31>>

InitWindow ==
    /\ wd_pc = "ready"
    /\ \E y \in StartYears, md \in MonthDays : wd_start = <<y, md[1], md[2]>>
    /\ \E y \in EndYears, md \in MonthDays : wd_end = <<y, md[1], md[2]>>
    /\ wd_days = 0
    /\ OthersIdle("window")

\* AeronetProcessor.__init__(start_year, end_year), lines 70-72.
ProcessorInit ==
    /\ wd_pc = "ready"
    /\ wd_days' = day_count(<<wd_start[1], 1, 1>>, <<wd_end[1], 12, 31>>)
    /\ wd_pc' = "AeronetProcessor.__init__"
    /\ UNCHANGED <<wd_start, wd_end>>
    /\ UNCHANGED notWd

\* calculate_representative_days, map_utils.py lines 754-756: the window is
\* fixed.
RepresentativeDaysWindow ==
    /\ wd_pc = "ready"
    /\ wd_days' = day_count(DEFAULT_START, DEFAULT_END)
    /\ wd_pc' = "calculate_representative_days"
    /\ UNCHANGED <<wd_start, wd_end>>
    /\ UNCHANGED notWd

\* utils.calculate_date_range_days(start_date, end_date), lines 47-49.
CalculateDateRangeDays ==
    /\ wd_pc = "ready"
    /\ wd_days' = day_count(wd_start, wd_end)
    /\ wd_pc' = "calculate_date_range_days"
    /\ UNCHANGED <<wd_start, wd_end>>
    /\ UNCHANGED notWd

NextWindow == ProcessorInit \/ RepresentativeDaysWindow \/ CalculateDateRangeDays

SpecWindow == InitWindow /\ [][NextWindow]_vars

\* The calls that compute the day count of the default window.
DefaultWindowComputed ==
    \/ wd_pc = "AeronetProcessor.__init__"
          /\ wd_start[1] = DEFAULT_START[1] /\ wd_end[1] = DEFAULT_END[1]
    \/ wd_pc = "calculate_representative_days"
    \/ wd_pc = "calculate_date_range_days"
          /\ wd_start = DEFAULT_START /\ wd_end = DEFAULT_END

\* C20 as stated: the number of days of the default window 1995-01-01 to
\* 2024-12-31 inclusive, computed as (end - start).days + 1 by
\* AeronetProcessor.__init__, calculate_representative_days and
\* calculate_date_range_days, is 10,957.
C20_DefaultWindowIs10957 == DefaultWindowComputed => wd_days = 10957

\* C20, amended: the number of days of the default window 1995-01-01 to
\* 2024-12-31 inclusive, computed as (end - start).days + 1 by the three
\* functions, is 10,958 (30 years of 365 days and the 8 leap days of
\* 1996 to 2024).
C20_DefaultWindowIs10958 ==
    DefaultWindowComputed =>
        /\ wd_days = 10958
        /\ wd_days = (30 * 365) + Cardinality({y \in 1995..2024 : IsLeap(y)})

\* AeronetProcessor.__init__ with the default years.
C20_Witness ==
    /\ wd_pc = "AeronetProcessor.__init__"
    /\ wd_start[1] = 1995
    /\ wd_end[1] = 2024
    /\ wd_days = 10958

(***************************************************************************)
(*   clean_dataframes: etl_aeronet_data.py and                             *)
(*   etl_cpam_aerossol_towaveletanalysis_DadosAeronetBaixadoByMe.py        *)
(***************************************************************************)

\* A frame is cleaned column by column; one numeric column is modelled.
\* Values are in tenths (10 stands for 1.0), so that means, deviations and
\* variances are compared exactly, without square roots.

\* outlier_threshold=3 (line 27)
outlier_threshold == 3

\* Longest free part of a modelled column.
MaxFree == 2

\* Length of the run of equal values a modelled column may start with.
PadLength == 12

FreeValues == {0, 9, 10, 12, 15, 30, SENTINEL}

\* The values of a column on which the mean is 10 (1.0) and the standard
\* deviation is 1 (0.1): 15, 12, seven 9s and twenty-eight 10s.
ExampleColumn ==
    <<15, 12>> \o [k \in 1..7 |-> 9] \o [k \in 1..28 |-> 10]

\* The columns: a first row, then either nothing more, or a run of 10s, or
\* the example column, each followed by a free part.
RawColumns ==
    {<<first>> \o body \o free :
        first \in {0, SENTINEL},
        body \in {<<>>, [k \in 1..PadLength |-> 10], ExampleColumn},
        free \in UNION {[1..n -> FreeValues] : n \in 0..MaxFree}}

\* line 40: df.replace(-999, np.nan)
replace_sentinel(col) ==
    [k \in 1..Len(col) |-> IF col[k] = SENTINEL THEN NA ELSE Cell(col[k])]

\* Sum of v ^ power over the cells of col that hold a value (mean() and std()
\* skip absent values).
Power(v, power) == IF power = 0 THEN 1 ELSE IF power = 1 THEN v ELSE v * v

RECURSIVE SumCells(_, _, _)
SumCells(col, k, power) ==
    IF k > Len(col) THEN 0
    ELSE (IF col[k].na THEN 0 ELSE Power(col[k].v, power))
            + SumCells(col, k + 1, power)

is_outlier_never(x, n, s, q) == FALSE

\* lines 47-50 for the value x of a column with n values of sum s and sum
\* of squares q: mean = s / n, std ^ 2 = (n q - s s) / (n (n - 1)), and
\*   x < mean - t std  or  x > mean + t std
\* is (n x - s) ^ 2 (n - 1) > t ^ 2 n (n q - s s).  With n < 2 the standard
\* deviation is NaN and both comparisons are false; std != 0 guards the rest.
is_outlier(x, n, s, q) ==
    /\ n >= 2
    /\ n * q - s * s # 0
    /\ ((n * x - s) * (n * x - s)) * (n - 1)
          > ((outlier_threshold * outlier_threshold) * n) * (n * q - s * s)

\* lines 37-54 for one numeric column: the first row is dropped, -999
\* becomes absent, outliers become absent, and a column without any value
\* left is dropped from the frame.
clean_column(col) ==
    LET df == replace_sentinel(Tail(col))
        n == SumCells(df, 1, 0)
        s == SumCells(df, 1, 1)
        q == SumCells(df, 1, 2)
        out == [k \in 1..Len(df) |->
                  IF ~df[k].na /\ is_outlier(df[k].v, n, s, q) THEN NA ELSE df[k]]
    IN  [dropped |-> \A k \in 1..Len(out) : out[k].na, column |-> out]

InitClean ==
    /\ cl_pc = "ready"
    /\ raw_column \in RawColumns
    /\ cleaned = <<>>
    /\ OthersIdle("clean")

\* etl_aeronet_data.clean_dataframes
CleanEtl ==
    /\ cl_pc = "ready"
    /\ cleaned' = clean_column(raw_column)
    /\ cl_pc' = "etl_aeronet_data"
    /\ UNCHANGED raw_column
    /\ UNCHANGED notCl

\* etl_cpam_aerossol_towaveletanalysis_DadosAeronetBaixadoByMe.clean_dataframes
CleanCpam ==
    /\ cl_pc = "ready"
    /\ cleaned' = clean_column(raw_column)
    /\ cl_pc' = "etl_cpam"
    /\ UNCHANGED raw_column
    /\ UNCHANGED notCl

NextClean == CleanEtl \/ CleanCpam

SpecClean == InitClean /\ [][NextClean]_vars

\* The column the statistics are taken over, its values, and n times the
\* deviation of a value from the mean.
Replaced == replace_sentinel(Tail(raw_column))

ValueRows == {k \in 1..Len(Replaced) : ~Replaced[k].na}

NumValues == Cardinality(ValueRows)

SumValues == SumCells(Replaced, 1, 1)

\* Sum over the values x of col of (n x - s) ^ 2: with n the number of
\* values and s their sum, n ^ 2 times the sum of squared deviations from
\* the mean, that is n ^ 2 (n - 1) times the variance.
RECURSIVE SumSquaredDeviations(_, _, _, _)
SumSquaredDeviations(col, k, n, s) ==
    IF k > Len(col) THEN 0
    ELSE (IF col[k].na THEN 0 ELSE (n * col[k].v - s) * (n * col[k].v - s))
            + SumSquaredDeviations(col, k + 1, n, s)

\* x is more than 3 standard deviations from the mean s / n:
\* (x - mean) ^ 2 > 9 var, both sides times n ^ 2 (n - 1).
FarFromMean(x, n, s, ssd) ==
    /\ n >= 2
    /\ ((n * x - s) * (n * x - s)) * (n - 1) > 9 * ssd

\* C21: clean_dataframes with outlier_threshold 3 makes absent exactly the
\* entries of a numeric column that are more than 3 standard deviations
\* from the column's mean (both taken after the first row is dropped and
\* -999 replaced), leaves the other entries as they are, and changes
\* nothing in a column of standard deviation zero; with mean 1.0 and
\* standard deviation 0.1 the value 1.5 becomes absent and 1.2 stays.
C21_OutliersBecomeAbsent ==
    cl_pc \in {"etl_aeronet_data", "etl_cpam"} =>
        LET df == Replaced
            n == NumValues
            s == SumValues
            ssd == SumSquaredDeviations(df, 1, n, s)
        IN  /\ Len(cleaned.column) = Len(df)
            /\ \A k \in 1..Len(df) :
                  cleaned.column[k] =
                      IF ~df[k].na /\ FarFromMean(df[k].v, n, s, ssd)
                      THEN NA ELSE df[k]
            /\ (\A i, j \in ValueRows : df[i].v = df[j].v)
                  => cleaned.column = df
            /\ (n >= 2 /\ s = 10 * n /\ ssd = (n * n) * (n - 1))
                  => \A k \in ValueRows :
                        /\ df[k].v = 15 => cleaned.column[k] = NA
                        /\ df[k].v = 12 => cleaned.column[k] = Cell(12)

\* The example column: mean 1.0, standard deviation 0.1; 1.5 is made
\* absent, 1.2 is kept.
C21_Witness ==
    /\ cl_pc = "etl_aeronet_data"
    /\ Tail(raw_column) = ExampleColumn
    /\ cleaned.column[1] = NA
    /\ cleaned.column[2] = Cell(12)
    /\ \A k \in 3..Len(cleaned.column) : ~cleaned.column[k].na

(***************************************************************************)
(*   filter_brazilian_stations: map_utils.py                               *)
(***************************************************************************)

\* brazil_bounds (lines 106-111), in degrees.
min_lat == 0 - 35

max_lat == 5

min_lon == 0 - 75

max_lon == 0 - 30

\* Longest station list.
MaxStations == 2

Latitudes == {min_lat - 1, min_lat, 0, max_lat, max_lat + 1}

Longitudes == {min_lon - 1, min_lon, 0 - 50, max_lon, max_lon + 1}

StationDicts ==
    [name : {"Alta_Floresta", "Natal"}, latitude : Latitudes, longitude : Longitudes]

Between_strict(low, x, high) == low < x /\ x < high

\* low <= x <= high
Between(low, x, high) == low <= x /\ x <= high

\* lines 114-120: the loop from station k on, appending to acc.
RECURSIVE filter_loop(_, _, _)
filter_loop(stations, k, acc) ==
    IF k > Len(stations) THEN acc
    ELSE LET station == stations[k]
             lat == station.latitude
             lon == station.longitude
         IN  IF Between(min_lat, lat, max_lat) /\ Between(min_lon, lon, max_lon)
             THEN filter_loop(stations, k + 1, Append(acc, station))
             ELSE filter_loop(stations, k + 1, acc)

filter_brazilian_stations(stations) == filter_loop(stations, 1, <<>>)

InitFilter ==
    /\ fb_pc = "ready"
    /\ fb_stations \in UNION {[1..n -> StationDicts] : n \in 0..MaxStations}
    /\ fb_original = fb_stations
    /\ brazilian_stations = <<>>
    /\ OthersIdle("filter")

FilterBrazilianStations ==
    /\ fb_pc = "ready"
    /\ brazilian_stations' = filter_brazilian_stations(fb_stations)
    /\ fb_pc' = "filtered"
    /\ UNCHANGED <<fb_stations, fb_original>>
    /\ UNCHANGED notFb

\* A second call, on the list the first call returned.
FilterAgain ==
    /\ fb_pc = "filtered"
    /\ fb_stations' = brazilian_stations
    /\ brazilian_stations' = filter_brazilian_stations(brazilian_stations)
    /\ fb_pc' = "refiltered"
    /\ UNCHANGED fb_original
    /\ UNCHANGED notFb

NextFilter == FilterBrazilianStations \/ FilterAgain

SpecFilter == InitFilter /\ [][NextFilter]_vars

InBrazilBox(station) ==
    /\ station.latitude >= 0 - 35
    /\ station.latitude <= 5
    /\ station.longitude >= 0 - 75
    /\ station.longitude <= 0 - 30

\* C22: filter_brazilian_stations returns exactly the input stations with
\* -35 <= latitude <= 5 and -75 <= longitude <= -30 (bounds included), in
\* input order and unmodified, and leaves its argument as it was; applied
\* to its own result it returns that result.
C22_FilterKeepsBoxInOrder ==
    /\ fb_pc = "filtered" =>
          /\ brazilian_stations = SelectSeq(fb_original, InBrazilBox)
          /\ fb_stations = fb_original
    /\ fb_pc = "refiltered" => brazilian_stations = fb_stations

\* Two stations on opposite corners of the box are kept, in input order,
\* and the second call returns the same list.
C22_Witness ==
    /\ fb_pc = "refiltered"
    /\ Len(fb_original) = 2
    /\ fb_original[1].latitude = 5 /\ fb_original[1].longitude = 0 - 30
    /\ fb_original[2].latitude = 0 - 35 /\ fb_original[2].longitude = 0 - 75
    /\ brazilian_stations = fb_original

(***************************************************************************)
(*   load_station_data: map_utils.py                                       *)
(***************************************************************************)

\* The keys of data_dirs (lines 306-310).
data_dirs == {20, 15, 10}

\* The level argument: None, an integer, or a string such as 'level20'
\* (generate_map.py line 35 passes 'level20', 'level15', 'level10').
LevelNone == [kind |-> "none", n |-> 0]

IntLevel(n) == [kind |-> "int", n |-> n]

StrLevel(n) == [kind |-> "str", n |-> n]

LevelArguments ==
    {LevelNone} \cup {IntLevel(n) : n \in data_dirs \cup {5}}
                \cup {StrLevel(n) : n \in data_dirs}

\* A level's file for the station: not there, there but read_aod_data
\* returns None for it, or there and read_aod_data returns a table.
FileStates == {"missing", "unreadable", "readable"}

\* level in data_dirs (line 313), and level in preferred_levels
InDataDirs(level) == level.kind = "int" /\ level.n \in data_dirs

\* The outcomes: the table read from a level's file, None, or an exception.
LoadedFrom(lvl) == [raised |-> FALSE, none |-> FALSE, level |-> lvl]

LoadNone == [raised |-> FALSE, none |-> TRUE, level |-> 0]

LoadRaises == [raised |-> TRUE, none |-> FALSE, level |-> 0]

\* list.remove(x): the list without the first x
RECURSIVE Remove(_, _)
Remove(list, x) ==
    IF list = <<>> THEN <<>>
    ELSE IF Head(list) = x THEN Tail(list)
    ELSE <<Head(list)>> \o Remove(Tail(list), x)

Reverse(list) == [k \in 1..Len(list) |-> list[Len(list) + 1 - k]]

remaining_ascending(list, x) == Reverse(Remove(list, x))

\* lines 324-325: remove(level), insert(0, level); the part after level
after_remove(list, x) == Remove(list, x)

\* lines 322-325 for a level that is None or in the list
preferred_levels(level) ==
    IF level.kind = "none" THEN <<20, 15, 10>>
    ELSE <<level.n>> \o after_remove(<<20, 15, 10>>, level.n)

\* lines 327-333: the loop over the levels of lvls from position k on
RECURSIVE load_loop(_, _, _)
load_loop(lvls, k, diskfiles) ==
    IF k > Len(lvls) THEN LoadNone
    ELSE IF diskfiles[lvls[k]] = "readable" THEN LoadedFrom(lvls[k])
    ELSE load_loop(lvls, k + 1, diskfiles)

load_station_data(level, diskfiles) ==
    IF InDataDirs(level) /\ diskfiles[level.n] = "readable"
    THEN LoadedFrom(level.n)                     \* lines 313-319
    ELSE IF level.kind # "none" /\ ~InDataDirs(level)
    THEN LoadRaises                              \* line 324: ValueError
    ELSE load_loop(preferred_levels(level), 1, diskfiles)

InitLoad ==
    /\ ld_pc = "ready"
    /\ ld_level \in LevelArguments
    /\ ld_files \in [data_dirs -> FileStates]
    /\ ld_outcome = LoadNone
    /\ OthersIdle("load")

LoadStationData ==
    /\ ld_pc = "ready"
    /\ ld_outcome' = load_station_data(ld_level, ld_files)
    /\ ld_pc' = "done"
    /\ UNCHANGED <<ld_level, ld_files>>
    /\ UNCHANGED notLd

NextLoad == LoadStationData

SpecLoad == InitLoad /\ [][NextLoad]_vars

\* The order the claim gives: the requested level, then the remaining
\* levels of 20, 15, 10; without a level 20, 15, 10.
ClaimedOrder ==
    IF ld_level = IntLevel(20) THEN <<20, 15, 10>>
    ELSE IF ld_level = IntLevel(15) THEN <<15, 20, 10>>
    ELSE IF ld_level = IntLevel(10) THEN <<10, 20, 15>>
    ELSE <<20, 15, 10>>

\* C23: for a level of 10, 15, 20 load_station_data returns the data of the
\* first level, in the order requested level then the remaining of 20, 15,
\* 10, whose file exists and is readable; without a level the order is 20,
\* 15, 10; it returns None only when no level has a readable file, and
\* never a later level when an earlier one is readable.
C23_FirstReadableLevel ==
    (ld_pc = "done" /\ (ld_level = LevelNone \/ InDataDirs(ld_level))) =>
        /\ ~ld_outcome.raised
        /\ ld_outcome.none <=> \A lvl \in data_dirs : ld_files[lvl] # "readable"
        /\ ~ld_outcome.none =>
              \E k \in 1..3 :
                 /\ ld_outcome.level = ClaimedOrder[k]
                 /\ ld_files[ClaimedOrder[k]] = "readable"
                 /\ \A j \in 1..(k - 1) : ld_files[ClaimedOrder[j]] # "readable"

\* Level 20 is requested, its file is missing, levels 15 and 10 are both
\* readable: the data of level 15 is returned.
C23_Witness ==
    /\ ld_pc = "done"
    /\ ld_level = IntLevel(20)
    /\ ld_files[20] = "missing"
    /\ ld_files[15] = "readable"
    /\ ld_files[10] = "readable"
    /\ ld_outcome = LoadedFrom(15)

\* C26: load_station_data returns a table or None and never raises, for
\* every level value, the strings 'level20', 'level15', 'level10' that
\* generate_map.main passes included.
C26_LoadNeverRaises ==
    ld_pc = "done" => ~ld_outcome.raised

(***************************************************************************)
(*   align_dataframes_by_date: etl_aeronet_data.py                         *)
(***************************************************************************)

\* Most rows of a loaded frame.
MaxAlignRows == 2

AlignPaths == {"a.txt", "b.txt"}

\* Days are numbered 1, 2, 3; NaT is a date cell that does not parse
\* (errors="coerce", line 71).
AlignDates == {NaT, 1, 2, 3}

\* A cell of Time(hh:mm:ss): a time of day or NaN.
TimeCells == {"08:30:00", "nan"}

\* A loaded frame of at most n rows: whether it has the date and the time
\* column, and the date and time cells of its rows.  The other cells of
\* row k are identified with k.
Frames(n) ==
    {[date_column |-> FALSE, time_column |-> FALSE, rows |-> <<>>]} \cup
    {[date_column |-> TRUE, time_column |-> t, rows |-> r] :
        t \in BOOLEAN,
        r \in UNION {[1..m -> [date : AlignDates, time : TimeCells]] : m \in 0..n}}

\* Two loaded files: a.txt of up to MaxAlignRows rows, b.txt of at most one.
LoadedFrames ==
    {[fp \in AlignPaths |-> IF fp = "a.txt" THEN a ELSE b] :
        a \in Frames(MaxAlignRows), b \in Frames(1)}

FrameDates(df) == {df.rows[k].date : k \in 1..Len(df.rows)} \ {NaT}

\* line 74: the date column is there and not all of its cells are NaT
is_valid_df(df) == df.date_column /\ FrameDates(df) # {}

SetMin(S) == CHOOSE x \in S : \A y \in S : x <= y

SetMax(S) == CHOOSE x \in S : \A y \in S : x >= y

last_row(df, day) ==
    IF day \in FrameDates(df)
    THEN SetMax({k \in 1..Len(df.rows) : df.rows[k].date = day})
    ELSE 0

\* line 87: drop_duplicates keeps the first row of each date; 0 when the
\* date is not in the frame
first_row(df, day) ==
    IF day \in FrameDates(df)
    THEN SetMin({k \in 1..Len(df.rows) : df.rows[k].date = day})
    ELSE 0

\* lines 87-93 for one frame and the calendar min_date..max_date: row 0
\* stands for cells that are all NaN.
reindex(df, min_date, max_date) ==
    [i \in 1..(max_date - min_date + 1) |->
        LET day == min_date + i - 1
            k == first_row(df, day)
            time == IF ~df.time_column THEN "no column"
                    ELSE IF k = 0 THEN "nan"
                    ELSE df.rows[k].time
        IN  [date |-> day,
             row |-> k,
             time |-> IF time = "nan" THEN "12:00:00" ELSE time]]

NotAligned == [included |-> FALSE, rows |-> <<>>]

align_dataframes_by_date(frames) ==
    LET valid_dfs == {fp \in DOMAIN frames : is_valid_df(frames[fp])}
    IN  IF valid_dfs = {} THEN [fp \in DOMAIN frames |-> NotAligned]
        ELSE LET min_date == SetMin(UNION {FrameDates(frames[fp]) : fp \in valid_dfs})
                 max_date == SetMax(UNION {FrameDates(frames[fp]) : fp \in valid_dfs})
             IN  [fp \in DOMAIN frames |->
                    IF fp \in valid_dfs
                    THEN [included |-> TRUE,
                          rows |-> reindex(frames[fp], min_date, max_date)]
                    ELSE NotAligned]

InitAlign ==
    /\ al_pc = "ready"
    /\ dfs \in LoadedFrames
    /\ aligned_dfs = <<>>
    /\ OthersIdle("align")

AlignDataframesByDate ==
    /\ al_pc = "ready"
    /\ aligned_dfs' = align_dataframes_by_date(dfs)
    /\ al_pc' = "done"
    /\ UNCHANGED dfs
    /\ UNCHANGED notAl

NextAlign == AlignDataframesByDate

SpecAlign == InitAlign /\ [][NextAlign]_vars

\* The dates of all frames that have the date column and a valid date.
UsableDates ==
    UNION {FrameDates(dfs[fp]) : fp \in {p \in AlignPaths : dfs[p].date_column}}

\* What the claim says of every frame but the cells of the rows: the
\* aligned set holds the frames with a usable date column, each with one
\* row per day from the global minimum to the global maximum, ascending.
AlignedOnCalendar ==
    \A fp \in AlignPaths :
        /\ aligned_dfs[fp].included
              <=> (dfs[fp].date_column /\ FrameDates(dfs[fp]) # {})
        /\ aligned_dfs[fp].included =>
              /\ Len(aligned_dfs[fp].rows)
                    = SetMax(UsableDates) - SetMin(UsableDates) + 1
              /\ \A i \in 1..Len(aligned_dfs[fp].rows) :
                    aligned_dfs[fp].rows[i].date = SetMin(UsableDates) + i - 1

\* Row r of the aligned frame of fp holds the cells of the first row of
\* that date, or absent cells if fp has no such row.
FirstRowOrAbsent(fp, r) ==
    LET same == {k \in 1..Len(dfs[fp].rows) : dfs[fp].rows[k].date = r.date}
    IN  IF same = {} THEN r.row = 0
        ELSE r.row \in same /\ \A k \in same : r.row <= k

\* C24 (as amended): the aligned set holds exactly the frames with a usable
\* date column, each with one row per calendar day from the global minimum
\* to the global maximum date, ascending; a date present in a file keeps
\* the file's first row for it and a missing date gets absent cells,
\* except that the date column holds the day and an absent cell of the
\* time column, in kept and added rows alike, holds "12:00:00".
C24_AlignedOnCalendarTimeFilled ==
    al_pc = "done" =>
        /\ AlignedOnCalendar
        /\ \A fp \in AlignPaths : \A i \in 1..Len(aligned_dfs[fp].rows) :
              LET r == aligned_dfs[fp].rows[i]
              IN  /\ FirstRowOrAbsent(fp, r)
                  /\ ~dfs[fp].time_column => r.time = "no column"
                  /\ dfs[fp].time_column =>
                        r.time = IF r.row = 0 \/ dfs[fp].rows[r.row].time = "nan"
                                 THEN "12:00:00"
                                 ELSE dfs[fp].rows[r.row].time

\* C24: after align_dataframes_by_date every aligned file has one row per
\* calendar day between the global minimum and maximum date, ascending
\* (max - min + 1 rows); a date present in a file keeps that file's first
\* row for the date, a date missing from it gets a row of absent values;
\* files without the date column or without a valid date are not aligned.
C24_AlignedOnCalendarAbsentRows ==
    al_pc = "done" =>
        /\ AlignedOnCalendar
        /\ \A fp \in AlignPaths : \A i \in 1..Len(aligned_dfs[fp].rows) :
              LET r == aligned_dfs[fp].rows[i]
              IN  /\ FirstRowOrAbsent(fp, r)
                  /\ ~dfs[fp].time_column => r.time = "no column"
                  /\ dfs[fp].time_column =>
                        r.time = IF r.row = 0 THEN "nan"
                                 ELSE dfs[fp].rows[r.row].time

\* a.txt has day 1 twice, b.txt has day 3: both are aligned on days 1..3,
\* a.txt keeps its first row for day 1, and the added rows of a.txt carry
\* the default time.
C24_Witness ==
    /\ al_pc = "done"
    /\ dfs["a.txt"].time_column
    /\ Len(dfs["a.txt"].rows) = 2
    /\ dfs["a.txt"].rows[1].date = 1 /\ dfs["a.txt"].rows[2].date = 1
    /\ FrameDates(dfs["b.txt"]) = {3}
    /\ Len(aligned_dfs["a.txt"].rows) = 3
    /\ Len(aligned_dfs["b.txt"].rows) = 3
    /\ aligned_dfs["a.txt"].rows[1].row = 1
    /\ aligned_dfs["a.txt"].rows[2] = [date |-> 2, row |-> 0, time |-> "12:00:00"]

(***************************************************************************)
(*   create_static_south_america_map: map_utils.py                         *)
(***************************************************************************)

\* What load_station_data returns for a station: None, or a table whose
\* date column holds some of the days 1..MaxDay (at least one).
StationTables ==
    {[none |-> TRUE, dates |-> {}]} \cup
    {[none |-> FALSE, dates |-> D] : D \in (SUBSET (1..MaxDay)) \ {{}}}

\* lines 529-540: the availability of one station of the loop, in percent,
\* as the fraction <<numerator, denominator>>.
static_availability(df) ==
    IF df.none THEN <<0, 1>>                               \* line 540
    ELSE LET total_days == SetMax(df.dates) - SetMin(df.dates)    \* line 531
             available_days == Cardinality(df.dates)              \* line 532
         IN  IF total_days > 0
             THEN <<available_days * 100, total_days>>            \* line 533
             ELSE <<0, 1>>

InitStaticMap ==
    /\ sm_pc = "ready"
    /\ sm_df \in StationTables
    /\ sm_availability = <<0, 1>>
    /\ OthersIdle("static_map")

\* One pass of the loop over the stations (lines 524-540).
StationAvailability ==
    /\ sm_pc = "ready"
    /\ sm_availability' = static_availability(sm_df)
    /\ sm_pc' = "done"
    /\ UNCHANGED sm_df
    /\ UNCHANGED notSm

NextStaticMap == StationAvailability

SpecStaticMap == InitStaticMap /\ [][NextStaticMap]_vars

\* C28: the availability percentage create_static_south_america_map
\* computes for a station (distinct observed dates over the day span
\* between the first and the last observed date, times 100) lies in
\* [0, 100] for every non-empty set of observed dates.
C28_StaticAvailabilityIsPercentage ==
    (sm_pc = "done" /\ ~sm_df.none) =>
        /\ sm_availability[1] >= 0
        /\ sm_availability[1] <= 100 * sm_availability[2]

(***************************************************************************)
(*   The median-split analysis: etl_aeronet_data_avaibilitty.py            *)
(***************************************************************************)

\* Most days of a station's file.
MaxMedianDays == 4

\* The numbers of valid measurements a day can have (0: a day whose
\* AOD_500nm cells are all NaN).
MedianCounts == {0, 1, 2, 8}

\* line 114: daily_counts.value_counts().sort_index(), a count -> the
\* number of days that have it
value_counts(daily) ==
    [v \in {daily[k] : k \in 1..Len(daily)} |->
        Cardinality({k \in 1..Len(daily) : daily[k] = v})]

\* line 236: distribution.index.repeat(distribution.values); the index is
\* ascending
RECURSIVE index_repeat(_, _)
index_repeat(distribution, todo) ==
    IF todo = {} THEN <<>>
    ELSE LET v == SetMin(todo)
         IN  [k \in 1..distribution[v] |-> v] \o index_repeat(distribution, todo \ {v})

\* line 236: Series.quantile(0.5) with linear interpolation of a sorted
\* series x of n >= 1 values: the value at position (n - 1) / 2, counted
\* from 0, or the mean of its two neighbours; as a fraction.
quantile_half(x) ==
    LET n == Len(x)
        lower == ((n - 1) \div 2) + 1
        upper == (n \div 2) + 1
    IN  <<x[lower] + x[upper], 2>>

AtLeastQuartil_strict(v, q) == v * q[2] > q[1]

\* line 240: distribution.index >= second_quartil
AtLeastQuartil(v, q) == v * q[2] >= q[1]

\* lines 236-240 for one station
median_split(distribution) ==
    LET second_quartil == quantile_half(index_repeat(distribution, DOMAIN distribution))
        kept == {v \in DOMAIN distribution : AtLeastQuartil(v, second_quartil)}
    IN  [second_quartil |-> second_quartil,
         representative_days |-> SumOver(distribution, kept)]

InitMedian ==
    /\ md_pc = "ready"
    /\ md_daily_counts \in UNION {[1..n -> MedianCounts] : n \in 1..MaxMedianDays}
    /\ md_result = [second_quartil |-> <<0, 1>>, representative_days |-> 0]
    /\ OthersIdle("median")

\* The frequency distribution of a station (line 114) and its analysis
\* (lines 234-242).
AnalyseStation ==
    /\ md_pc = "ready"
    /\ md_result' = median_split(value_counts(md_daily_counts))
    /\ md_pc' = "done"
    /\ UNCHANGED md_daily_counts
    /\ UNCHANGED notMd

NextMedian == AnalyseStation

SpecMedian == InitMedian /\ [][NextMedian]_vars

\* C30: in the median-split analysis, for a frequency distribution over
\* N >= 1 days, the number of representative days (days whose count is >=
\* the median of the per-day counts) is at least ceil(N / 2) and at most N.
C30_MedianSplitKeepsHalf ==
    md_pc = "done" =>
        LET N == Len(md_daily_counts)
            q == md_result.second_quartil
        IN  /\ md_result.representative_days >= (N + 1) \div 2
            /\ md_result.representative_days <= N
            /\ md_result.representative_days
                  = Cardinality({k \in 1..N : md_daily_counts[k] * q[2] >= q[1]})

\* Four days of different counts: the median is 1.5 and exactly two days
\* are representative.
C30_Witness ==
    /\ md_pc = "done"
    /\ md_daily_counts = <<8, 0, 2, 1>>
    /\ md_result.second_quartil = <<3, 2>>
    /\ md_result.representative_days = 2

(***************************************************************************)
(*                     Properties of the process_data sweep                *)
(***************************************************************************)

ContentAt(p) == (CHOOSE e \in tree : PathOf(e) = p).content

HandledPaths == {handled[k] : k \in 1..Len(handled)}

\* The files whose processing ends in the except clause.
Raising(p) == EndsWithTxt(p[2]) /\ process_file(ContentAt(p)).kind = "error"

\* C5: within the sweep of one level directory every successfully
\* processed file records its result under a key of its own (no two
\* distinct files of a level write the same station/level key), so the
\* returned dictionary holds every file's result whatever the listing order.
C5_OwnKeyPerFile ==
    /\ \A p, q \in DOMAIN stored :
        (p # q /\ p[1] = q[1]) => station_name(p[2]) # station_name(q[2])
    /\ sw_pc = "done" =>
        \A p \in DOMAIN stored :
            availability_data[<<station_name(p[2]), p[1]>>] = stored[p]

\* C6: no single file makes process_data raise: a file whose processing
\* raises adds exactly one (file_path, message) entry to the error list and
\* stores no result, no other file adds an entry, and every file listed
\* after it, in the same or a later level directory, is still processed.
C6_PerFileErrorsContained ==
    /\ \A p \in HandledPaths :
        /\ Cardinality({k \in 1..Len(errors) : errors[k][1] = p})
              = IF Raising(p) THEN 1 ELSE 0
        /\ Raising(p) => p \notin DOMAIN stored
    /\ \A k \in 1..Len(errors) : errors[k][1] \in HandledPaths
    /\ DOMAIN availability_data
          = {<<station_name(p[2]), p[1]>> : p \in DOMAIN stored}
    /\ \A i, j \in 1..Len(handled) : handled[i] = handled[j] => i = j
    /\ sw_pc = "done" =>
          HandledPaths = {PathOf(e) : e \in {x \in tree : x.level \in dirs}}
    /\ sw_pc \notin {"done", "idle"} => ENABLED NextSweep

\* A file raised and a file listed after it was processed and stored.
C6_Witness ==
    /\ sw_pc = "done"
    /\ Len(errors) = 1
    /\ \E i, j \in 1..Len(handled) :
        /\ i < j
        /\ Raising(handled[i])
        /\ errors[1][1] = handled[i]
        /\ handled[j] \in DOMAIN stored

\* The calendar dates of a file's rows that lie in the configured window.
DatesInWindow(c) ==
    {d \in DistinctDates(c.dates) : d # NaT /\ start_date <= d /\ d <= end_date}

\* C12: for every file process_data accepts, the stored availability is the
\* number of distinct calendar dates of the file inside the inclusive
\* window [start_date, end_date], over the inclusive day count of the
\* window, times 100: repeated dates count once and dates outside the
\* window do not count.
C12_AvailabilityIsDistinctDays ==
    \A p \in DOMAIN stored :
        LET n == Cardinality(DatesInWindow(ContentAt(p)))
        IN  /\ stored[p].days_with_data = n
            /\ stored[p].total_days = WindowLength
            /\ stored[p].availability = <<n * 100, WindowLength>>

\* A stored file with a date of several rows and dates outside the window.
C12_Witness ==
    \E p \in DOMAIN stored :
        LET ds == ContentAt(p).dates
        IN  /\ \E i, j \in 1..Len(ds) : i # j /\ ds[i] = ds[j] /\ InWindow(ds[i])
            /\ \E i \in 1..Len(ds) : ds[i] # NaT /\ ~InWindow(ds[i])
            /\ stored[p].days_with_data = 1
            /\ availability_data[<<station_name(p[2]), p[1]>>] = stored[p]

(***************************************************************************)
(*                 Properties of the Downloader batch driver               *)
(***************************************************************************)

\* The stations whose retry loop has ended.
Finished(s) ==
    \E k \in 1..Len(order) :
        /\ order[k] = s
        /\ (k < dl_i \/ dl_pc \in {"sleep", "done"})

\* C1: the batch driver takes every station of the hardcoded list exactly
\* once and in list order; each station gets at least 1 and at most 3
\* attempts, none after its first successful attempt; a station whose third
\* attempt fails is reported as failed and the driver goes on with the next
\* station, so the run only ends after the last station of the list.
C1_BatchRetryDiscipline ==
    /\ Len(order) <= NumStations
    /\ \A k \in 1..Len(order) : order[k] = stations_in_brazil[k]
    /\ \A s \in Stations :
        /\ tries[s] <= 3
        /\ Finished(s) => tries[s] >= 1
        /\ ok_at[s] # 0 => tries[s] = ok_at[s]
        /\ s \in failed <=> (tries[s] = 3 /\ ok_at[s] = 0)
        /\ Finished(s) => (ok_at[s] # 0 \/ s \in failed)
    /\ dl_pc = "done" =>
        /\ order = stations_in_brazil
        /\ \A s \in Stations : Finished(s)
    /\ dl_pc # "done" => ENABLED NextDownloader

\* A run in which a station was given up after three attempts and a later
\* station succeeded on a retry.
C1_Witness ==
    /\ dl_pc = "done"
    /\ \E s, t \in Stations :
        /\ s < t
        /\ s \in failed /\ tries[s] = 3
        /\ ok_at[t] = 2

C25_SavedFileIsFinal ==
    /\ [][\A s \in Stations :
             disk[s].exists =>
                 /\ disk'[s] = disk[s]
                 /\ net_calls'[s] = net_calls[s]]_vars
    /\ [](\A s \in Stations :
             (Finished(s) /\ disk[s].exists /\ ~validate_downloaded_data(disk[s]))
                 => (s \in failed /\ tries[s] = 3 /\ ok_at[s] = 0))

\* A station whose first attempt saved a well-formed raw file: the file
\* failed validation three times and was fetched once.
C25_Witness ==
    /\ dl_pc = "done"
    /\ \E s \in Stations :
        /\ WellFormed(disk[s])
        /\ net_calls[s] = 1
        /\ tries[s] = 3
        /\ s \in failed

C3_ValidationAcceptsDateHeader ==
    (last.site # 0 /\ last.validated) =>
        /\ WellFormed(last.after) => last.success
        /\ last.success <=> (last.after.exists /\ last.after.hasDate)

\* C4: with a data-format label other than 'all points' or 'daily averages'
\* the configuration error aborts the run: after it is raised there is no
\* further attempt and no further station.
C4_ConfigErrorAbortsRun ==
    ~ValidFormat(data_format) =>
        /\ Len(order) <= 1
        /\ \A s \in Stations : tries[s] <= 1

====
